---------------------------- MODULE Spec2Model ----------------------------
(***************************************************************************)
(* Model of the CARG connector (port_ocean_carg):                          *)
(*   - client.py: CargAPIClient._send_api_request (semaphore, 429 retry,   *)
(*     fallback to mock data) and get_paginated_resources (skip/take loop) *)
(*   - validate_port_objects.py: PortObjectValidator                       *)
(*   - extract_port_objects.py: PortObjectExtractor.validate_against_...   *)
(*     and transform_to_port_object                                        *)
(*   - extract_port_json.py, extract_port_simple.py: SimplePortExtractor   *)
(*   - client.py: CargAPIClient.create_webhooks                            *)
(*   - validate_port_objects.py, extract_port_objects.py: main (exit code) *)
(*   - client.py: CargAPIClient.client (lazily constructed HTTP handle)    *)
(* Eight specifications share the module:                                  *)
(*   Spec         one get_paginated_resources invocation against a remote  *)
(*   SpecConc     many tasks calling _send_api_request on the one client   *)
(*   SpecValidate the two validators applied to bounded inputs             *)
(*   SpecMap      one raw item mapped, then validated                      *)
(*   SpecWebhook  create_webhooks calls against a remote                   *)
(*   SpecLive     Spec with fairly scheduled steps                         *)
(*   SpecCli      one run of a command-line program to its exit status     *)
(*   SpecPair     several get_paginated_resources invocations, interleaved *)
(***************************************************************************)
EXTENDS Integers, Sequences, FiniteSets, TLC

VARIABLES
    \* ---- the client (client.py) ----
    configured,   \* base_url and api_token both set (client.py:104)
    sem,          \* self._semaphore._value: free permits (client.py:57)
    \* ---- the remote, as seen by one get_paginated_resources invocation ----
    M,            \* size of the remote's data set
    shape,        \* structure of the remote's success bodies
    \* ---- one get_paginated_resources invocation (client.py:153-205) ----
    resource_kind,\* argument resource_kind
    pc,           \* position of the invocation
    params,       \* the params dict: [skip, take]
    page,         \* local page counter
    response,     \* value returned by the last _send_api_request
    retry_after,  \* argument of the pending asyncio.sleep (client.py:124)
    yielded,      \* pages yielded so far, in order
    requests,     \* history: requests put on the wire
    answers,      \* history: outcome of each request on the wire
    \* ---- tasks sharing the module-level client (main.py:11) ----
    tpc,          \* tpc[t]: position of task t inside _send_api_request
    \* ---- validation (validate_port_objects.py, extract_port_objects.py) ----
    port_objects, \* input: sequence of [kind, objects]
    vpc,          \* the validators that have run
    results,      \* PortObjectValidator.validate_port_objects(port_objects)
    validation_results, \* PortObjectExtractor.validate_against_blueprints(port_objects)
    \* ---- mapping (extract_port_json.py, extract_port_simple.py, extract_port_objects.py) ----
    raw,          \* input of direct mapping: [kind, item]
    mappings,     \* input of expression mapping: the mappings and what each expression yields
    mpc,          \* "raw", the mapper that produced port_objects, or "raised"
    \* ---- webhook registration (client.py:242-286) ----
    can_create,   \* the remote grants canCreateWebhooks
    webhooks,     \* the remote's webhooks: their target URLs, in creation order
    hpc,          \* position of the create_webhooks call
    app_host,     \* argument app_host of the call
    hcalls,       \* create_webhooks calls begun
    posts,        \* history: the creating POSTs put on the wire
    \* ---- a run of a command-line program (validate_port_objects.py, extract_port_objects.py) ----
    run,          \* the program, its arguments, its environment, its position and exit status
    \* ---- fetches that share one client (client.py:53-90, 153-205) ----
    _client,      \* self._client: the transport handle, or None
    setups,       \* times the body of `if self._client is None` has run
    dicts,        \* the params dicts, by identity: [skip, take]
    fetches       \* fetches[f]: the state of get_paginated_resources invocation f

fetchVars == <<configured, M, shape, resource_kind, pc, params, page, response,
               retry_after, yielded, requests, answers>>
concVars  == <<tpc>>
valVars   == <<port_objects, vpc, results, validation_results>>
mapVars   == <<raw, mappings, mpc>>
hookVars  == <<can_create, webhooks, hpc, app_host, hcalls, posts>>
cliVars   == <<run>>
pairVars  == <<_client, setups, dicts, fetches>>
vars      == <<fetchVars, sem, concVars, valVars, mapVars, hookVars, cliVars, pairVars>>

---------------------------------------------------------------------------
(* Program constants (client.py:15-18) *)
MAX_CONCURRENT_REQUESTS == 10
PAGE_SIZE == 100
RETRY_DELAY == 60

(* Bounds of the model *)
MaxPages == 2
Max429 == 2
NumTasks == 11
MaxObjs == 2
MaxMissing == 2
MaxCalls == 2
NumFetches == 2

---------------------------------------------------------------------------
(* Generic helpers *)
Min(a, b) == IF a < b THEN a ELSE b

Last(s) == s[Len(s)]

RECURSIVE Concat(_)
Concat(pages) ==
    IF pages = <<>> THEN <<>> ELSE Head(pages) \o Concat(Tail(pages))

CeilDiv(a, b) == (a + b - 1) \div b

---------------------------------------------------------------------------
(* asyncio.Semaphore(MAX_CONCURRENT_REQUESTS): `async with` blocks while    *)
(* no permit is free, takes one on entry and gives it back on every exit.   *)
SemCanAcquire_NoGate(s) == TRUE

SemCanAcquire(s) == s > 0

SemAcquire(s) == s - 1

SemRelease_Kept(s) == s

SemRelease(s) == s + 1

---------------------------------------------------------------------------
(* Python's int(str) on a header value: surrounding blanks are stripped,    *)
(* then an optional sign and one or more decimal digits; anything else      *)
(* raises ValueError.                                                       *)
Digits == <<"0", "1", "2", "3", "4", "5", "6", "7", "8", "9">>

IsDigit(c) == \E d \in 1..10 : Digits[d] = c

DigitValue(c) == (CHOOSE d \in 1..10 : Digits[d] = c) - 1

RECURSIVE Strip(_)
Strip(s) ==
    IF Len(s) = 0 THEN s
    ELSE IF SubSeq(s, 1, 1) = " " THEN Strip(SubSeq(s, 2, Len(s)))
    ELSE IF SubSeq(s, Len(s), Len(s)) = " " THEN Strip(SubSeq(s, 1, Len(s) - 1))
    ELSE s

Unsigned(s) ==
    IF Len(s) > 0 /\ SubSeq(s, 1, 1) \in {"+", "-"} THEN SubSeq(s, 2, Len(s)) ELSE s

RECURSIVE DigitsValue(_)
DigitsValue(s) ==
    IF Len(s) = 0 THEN 0
    ELSE 10 * DigitsValue(SubSeq(s, 1, Len(s) - 1)) + DigitValue(SubSeq(s, Len(s), Len(s)))

IntParses(s) ==
    LET u == Unsigned(Strip(s))
    IN  Len(u) > 0 /\ \A i \in 1..Len(u) : IsDigit(SubSeq(u, i, i))

IntValue(s) ==
    LET t == Strip(s)
        v == DigitsValue(Unsigned(t))
    IN  IF SubSeq(t, 1, 1) = "-" THEN 0 - v ELSE v

---------------------------------------------------------------------------
(* Mock data (client.py:289-447): the fixture records of each kind, by id.  *)
MockItem(i) == [mock |-> TRUE, id |-> i]

_get_mock_projects == <<MockItem(1), MockItem(2)>>

_get_mock_services == <<MockItem(101), MockItem(102), MockItem(103)>>

_get_mock_components == <<MockItem(201), MockItem(202), MockItem(203)>>

_get_mock_deployments == <<MockItem(301), MockItem(302), MockItem(303)>>

StartsWith(s, prefix) ==
    Len(s) >= Len(prefix) /\ SubSeq(s, 1, Len(prefix)) = prefix

(* A JSON body: a mapping with optional keys, or a bare list. A key that is *)
(* absent is not in `keys`; its field then holds a filler never read.       *)
DictBody(keys, data, items, total, hasMore) ==
    [isdict |-> TRUE, islist |-> FALSE, keys |-> keys, data |-> data,
     items |-> items, total |-> total, hasMore |-> hasMore]

ListBody(list) ==
    [isdict |-> FALSE, islist |-> TRUE, keys |-> {}, data |-> list,
     items |-> <<>>, total |-> 0, hasMore |-> FALSE]

NoBody == ListBody(<<>>)

_get_mock_data_for_endpoint(endpoint) ==
    IF StartsWith(endpoint, "projects")
      THEN DictBody({"data"}, _get_mock_projects, <<>>, 0, FALSE)
    ELSE IF StartsWith(endpoint, "services")
      THEN DictBody({"data"}, _get_mock_services, <<>>, 0, FALSE)
    ELSE IF StartsWith(endpoint, "components")
      THEN DictBody({"data"}, _get_mock_components, <<>>, 0, FALSE)
    ELSE IF StartsWith(endpoint, "deployments")
      THEN DictBody({"data"}, _get_mock_deployments, <<>>, 0, FALSE)
    ELSE DictBody({"data"}, <<>>, <<>>, 0, FALSE)

---------------------------------------------------------------------------
(* The remote: a data set of M items served by skip/take.                   *)
RemoteItem(i) == [mock |-> FALSE, id |-> i]

Slice(m, skip, take) ==
    [i \in 1..(IF skip >= m THEN 0 ELSE Min(take, m - skip)) |-> RemoteItem(skip + i)]

Data(m) == Slice(m, 0, m)

(* Body structures a remote may use (spec section 6): a mapping holding the *)
(* items under "data" or "items", with or without "total" and "hasMore",    *)
(* or a bare list.                                                          *)
Shapes ==
    { [list |-> FALSE, key |-> "data", total |-> t, hasMore |-> h] : t, h \in BOOLEAN }
    \cup { [list |-> FALSE, key |-> "items", total |-> FALSE, hasMore |-> FALSE],
           [list |-> TRUE, key |-> "data", total |-> FALSE, hasMore |-> FALSE] }

RemoteBody(sh, m, skip, take) ==
    LET its == Slice(m, skip, take)
    IN  IF sh.list THEN ListBody(its)
        ELSE DictBody({sh.key} \cup (IF sh.total THEN {"total"} ELSE {})
                               \cup (IF sh.hasMore THEN {"hasMore"} ELSE {}),
                      IF sh.key = "data" THEN its ELSE <<>>,
                      IF sh.key = "items" THEN its ELSE <<>>,
                      IF sh.total THEN m ELSE 0,
                      IF sh.hasMore THEN skip + take < m ELSE FALSE)

(* Data-set sizes tried: around every multiple of the page size.            *)
Sizes == { k * PAGE_SIZE + d : k \in 0..MaxPages, d \in {0, 1, PAGE_SIZE - 1} }

---------------------------------------------------------------------------
(* Outcomes of `await self.client.request(...)`, raise_for_status() and     *)
(* response.json() (client.py:112-119): the exception raised, if any, the   *)
(* status of the response, and its Retry-After header.                      *)
NoHeader == [present |-> FALSE, value |-> ""]

Header(v) == [present |-> TRUE, value |-> v]

RetryAfterHeaders ==
    {NoHeader, Header("5"), Header("1.5"), Header("Wed, 21 Oct 2015 07:28:00 GMT")}

Outcome(exc, status, hdr) == [exc |-> exc, status |-> status, retryAfter |-> hdr]

OkOutcome == Outcome("none", 200, NoHeader)

RateLimitOutcomes == { Outcome("HTTPStatusError", 429, h) : h \in RetryAfterHeaders }

ErrorOutcomes ==
    { Outcome("HTTPStatusError", st, NoHeader) : st \in {404, 500} }
    \cup { Outcome("ConnectError", 0, NoHeader),
           Outcome("ReadTimeout", 0, NoHeader),
           Outcome("JSONDecodeError", 200, NoHeader) }

(* except HTTPStatusError with status 429 (client.py:121-122) *)
IsRateLimit(o) == o.exc = "HTTPStatusError" /\ o.status = 429

(* The two handlers that end in the mock data: `except HTTPStatusError`     *)
(* past the 429 branch (client.py:128-132) and `except Exception`           *)
(* (client.py:134-137), which every exception class of the outcomes is.     *)
IsCaught_OnlyHTTP(o) == o.exc = "HTTPStatusError"

IsCaught(o) == o.exc # "none"

(* e.response.headers.get("Retry-After", str(RETRY_DELAY)) (client.py:124)  *)
RetryAfterText(o) ==
    IF o.retryAfter.present THEN o.retryAfter.value ELSE ToString(RETRY_DELAY)

---------------------------------------------------------------------------
(* get_paginated_resources (client.py:153-205)                              *)
ResourceKinds == {"project", "service", "component", "deployment", "webhook"}

(* endpoint = endpoint_override or f"{resource_kind}s" (client.py:165)      *)
Endpoint(kind) == kind \o "s"

Request(method, endpoint, p) ==
    [method |-> method, endpoint |-> endpoint, skip |-> p.skip, take |-> p.take]

(* The recursive call passes method, endpoint and the same params on        *)
(* (client.py:126).                                                         *)
ReissuedRequest_NextPage(req) == [req EXCEPT !.skip = req.skip + PAGE_SIZE]

ReissuedRequest(req) == req

(* client.py:181-188 *)
ItemsOf(r) ==
    IF r.isdict
      THEN IF "data" \in r.keys THEN r.data
           ELSE IF "items" \in r.keys THEN r.items ELSE <<>>
      ELSE IF r.islist THEN r.data ELSE <<>>

TotalOf_DictOnly(r) ==
    IF r.isdict THEN (IF "total" \in r.keys THEN r.total ELSE 0) ELSE 0

TotalOf(r) ==
    IF r.isdict THEN (IF "total" \in r.keys THEN r.total ELSE 0) ELSE Len(ItemsOf(r))

HasMoreOf(r) ==
    IF r.isdict THEN (IF "hasMore" \in r.keys THEN r.hasMore ELSE FALSE) ELSE FALSE

(* if not items: break (client.py:190-191) *)
BreaksBeforeYield_Never(items) == FALSE

BreaksBeforeYield(items) == Len(items) = 0

(* client.py:196-201: whether the loop breaks after the yield *)
BreaksAfterYield_LE(r, skip) ==
    LET items == ItemsOf(r)
    IN  IF ~HasMoreOf(r) /\ TotalOf(r) > 0
          THEN skip + Len(items) >= TotalOf(r)
          ELSE Len(items) <= PAGE_SIZE

BreaksAfterYield_NoTotal(r, skip) == Len(ItemsOf(r)) < PAGE_SIZE

BreaksAfterYield(r, skip) ==
    LET items == ItemsOf(r)
    IN  IF ~HasMoreOf(r) /\ TotalOf(r) > 0
          THEN skip + Len(items) >= TotalOf(r)
          ELSE Len(items) < PAGE_SIZE

(* params["skip"] += PAGE_SIZE (client.py:204) *)
NextParams_Assign(p) == [p EXCEPT !.skip = PAGE_SIZE]

NextParams(p) == [p EXCEPT !.skip = p.skip + PAGE_SIZE]

FetchInit ==
    /\ configured \in BOOLEAN
    /\ sem = MAX_CONCURRENT_REQUESTS
    /\ M \in (IF configured THEN Sizes ELSE {0})
    /\ shape \in (IF configured THEN Shapes
                  ELSE {[list |-> FALSE, key |-> "data", total |-> FALSE, hasMore |-> FALSE]})
    /\ resource_kind \in ResourceKinds
    /\ pc = "call"
    /\ params = [skip |-> 0, take |-> PAGE_SIZE]
    /\ page = 0
    /\ response = NoBody
    /\ retry_after = 0
    /\ yielded = <<>>
    /\ requests = <<>>
    /\ answers = <<>>

(* if not self.base_url or not self.api_token (client.py:104) *)
NoApiConfig_Never(c) == FALSE

NoApiConfig(c) == ~c

(* client.py:104-106: no configuration, no request: the mock data *)
MockCall ==
    /\ pc = "call"
    /\ NoApiConfig(configured)
    /\ response' = _get_mock_data_for_endpoint(Endpoint(resource_kind))
    /\ pc' = "returned"
    /\ UNCHANGED <<configured, M, shape, resource_kind, params, page, retry_after,
                   yielded, requests, answers, sem, concVars, valVars, mapVars, hookVars, cliVars, pairVars>>

(* client.py:178, 108-117: enter `async with self._semaphore`, send *)
SendRequest ==
    /\ pc = "call"
    /\ ~NoApiConfig(configured)
    /\ SemCanAcquire(sem)
    /\ sem' = SemAcquire(sem)
    /\ requests' = Append(requests, Request("GET", Endpoint(resource_kind), params))
    /\ pc' = "inflight"
    /\ UNCHANGED <<configured, M, shape, resource_kind, params, page, response,
                   retry_after, yielded, answers, concVars, valVars, mapVars, hookVars, cliVars, pairVars>>

(* client.py:118-119: a success status and a body that parses *)
AnswerOK ==
    /\ pc = "inflight"
    /\ sem' = SemRelease(sem)
    /\ answers' = Append(answers, OkOutcome)
    /\ response' = RemoteBody(shape, M, Last(requests).skip, Last(requests).take)
    /\ pc' = "returned"
    /\ UNCHANGED <<configured, M, shape, resource_kind, params, page, retry_after,
                   yielded, requests, concVars, valVars, mapVars, hookVars, cliVars, pairVars>>

(* client.py:121-125: status 429; int() of the header may raise ValueError, *)
(* which no handler of _send_api_request catches.                           *)
Answer429 ==
    /\ pc = "inflight"
    /\ Len(SelectSeq(answers, IsRateLimit)) < Max429
    /\ \E o \in RateLimitOutcomes :
         /\ sem' = SemRelease(sem)
         /\ answers' = Append(answers, o)
         /\ IF IntParses(RetryAfterText(o))
              THEN /\ retry_after' = IntValue(RetryAfterText(o))
                   /\ pc' = "sleep"
              ELSE /\ retry_after' = retry_after
                   /\ pc' = "raised"
    /\ UNCHANGED <<configured, M, shape, resource_kind, params, page, response,
                   yielded, requests, concVars, valVars, mapVars, hookVars, cliVars, pairVars>>

(* client.py:128-137: any other failure ends in the mock data *)
AnswerError ==
    /\ pc = "inflight"
    /\ \E o \in ErrorOutcomes :
         /\ sem' = SemRelease(sem)
         /\ answers' = Append(answers, o)
         /\ IF IsCaught(o)
              THEN /\ response' = _get_mock_data_for_endpoint(Last(requests).endpoint)
                   /\ pc' = "returned"
              ELSE /\ response' = response
                   /\ pc' = "raised"
    /\ UNCHANGED <<configured, M, shape, resource_kind, params, page, retry_after,
                   yielded, requests, concVars, valVars, mapVars, hookVars, cliVars, pairVars>>

(* client.py:125-126, 104-117: the sleep ends, the request is sent again *)
Reissue ==
    /\ pc = "sleep"
    /\ SemCanAcquire(sem)
    /\ sem' = SemAcquire(sem)
    /\ requests' = Append(requests, ReissuedRequest(Last(requests)))
    /\ retry_after' = 0
    /\ pc' = "inflight"
    /\ UNCHANGED <<configured, M, shape, resource_kind, params, page, response,
                   yielded, answers, concVars, valVars, mapVars, hookVars, cliVars, pairVars>>

(* client.py:180-205: one pass of the loop body after the response *)
ProcessResponse ==
    /\ pc = "returned"
    /\ LET items == ItemsOf(response)
       IN  IF BreaksBeforeYield(items)
             THEN /\ pc' = "done"
                  /\ UNCHANGED <<yielded, params, page>>
             ELSE /\ yielded' = Append(yielded, items)
                  /\ IF BreaksAfterYield(response, params.skip)
                       THEN /\ pc' = "done"
                            /\ UNCHANGED <<params, page>>
                       ELSE /\ params' = NextParams(params)
                            /\ page' = page + 1
                            /\ pc' = "call"
    /\ UNCHANGED <<configured, M, shape, resource_kind, response, retry_after,
                   requests, answers, sem, concVars, valVars, mapVars, hookVars, cliVars, pairVars>>

FetchNext ==
    \/ MockCall
    \/ SendRequest
    \/ AnswerOK
    \/ Answer429
    \/ AnswerError
    \/ Reissue
    \/ ProcessResponse

---------------------------------------------------------------------------
(* Tasks that call _send_api_request on the module-level client             *)
(* (main.py:11, client.py:104-137). A task that finds no free permit waits  *)
(* at `async with` until one is released.                                   *)
Tasks == 1..NumTasks

InFlight == { t \in Tasks : tpc[t] = "inflight" }

ConcInit ==
    /\ tpc = [t \in Tasks |-> "idle"]
    /\ sem = MAX_CONCURRENT_REQUESTS

(* client.py:111-117 *)
TaskSend(t) ==
    /\ tpc[t] = "idle"
    /\ SemCanAcquire(sem)
    /\ sem' = SemAcquire(sem)
    /\ tpc' = [tpc EXCEPT ![t] = "inflight"]
    /\ UNCHANGED <<fetchVars, valVars, mapVars, hookVars, cliVars, pairVars>>

(* client.py:119, 128-137: the call ends with the body or the mock data     *)
(* (or, after a 429 whose Retry-After is no integer, with ValueError).      *)
TaskReturn(t) ==
    /\ tpc[t] = "inflight"
    /\ sem' = SemRelease(sem)
    /\ tpc' = [tpc EXCEPT ![t] = "idle"]
    /\ UNCHANGED <<fetchVars, valVars, mapVars, hookVars, cliVars, pairVars>>

(* client.py:121-125: 429, the permit is given back before the sleep *)
TaskRateLimited(t) ==
    /\ tpc[t] = "inflight"
    /\ sem' = SemRelease(sem)
    /\ tpc' = [tpc EXCEPT ![t] = "sleep"]
    /\ UNCHANGED <<fetchVars, valVars, mapVars, hookVars, cliVars, pairVars>>

(* client.py:126, 111-117: the recursive call takes a permit again *)
TaskReissue(t) ==
    /\ tpc[t] = "sleep"
    /\ SemCanAcquire(sem)
    /\ sem' = SemAcquire(sem)
    /\ tpc' = [tpc EXCEPT ![t] = "inflight"]
    /\ UNCHANGED <<fetchVars, valVars, mapVars, hookVars, cliVars, pairVars>>

ConcNext ==
    \E t \in Tasks :
        \/ TaskSend(t)
        \/ TaskReturn(t)
        \/ TaskRateLimited(t)
        \/ TaskReissue(t)

---------------------------------------------------------------------------
(* Python values of an object's fields: the type and the payload. A key     *)
(* that the object does not hold is Absent.                                 *)
PyVal(t, str, n) == [t |-> t, s |-> str, n |-> n]

Absent == PyVal("absent", "", 0)

PyNone == PyVal("none", "", 0)

PyStr(x) == PyVal("str", x, 0)

PyInt(n) == PyVal("int", "", n)

PyBool(b) == PyVal("bool", "", IF b THEN 1 ELSE 0)

PyList(n) == PyVal("list", "", n)

(* `field in obj` *)
Has(v) == v.t # "absent"

(* bool(v) *)
Truthy(v) ==
    CASE v.t = "str" -> v.s # ""
      [] v.t \in {"int", "bool", "list"} -> v.n # 0
      [] OTHER -> FALSE

(* isinstance(v, str), isinstance(v, (int, float)), isinstance(v, bool),    *)
(* isinstance(v, list): bool is a subclass of int.                          *)
IsStr(v) == v.t = "str"

IsNumber(v) == v.t \in {"int", "bool"}

IsBool(v) == v.t = "bool"

IsList(v) == v.t = "list"

(* The properties / relations member: absent, a dict (its entries in        *)
(* insertion order), or something that is no dict.                          *)
NoMember == [t |-> "absent", d |-> <<>>]

NotADict == [t |-> "list", d |-> <<>>]

Dict(entries) == [t |-> "dict", d |-> entries]

Entry(name, value) == [name |-> name, value |-> value]

Object(identifier, title, blueprint, properties, relations) ==
    [identifier |-> identifier, title |-> title, blueprint |-> blueprint,
     properties |-> properties, relations |-> relations]

(* The schema registry (blueprints.json, loaded at                          *)
(* validate_port_objects.py:22-27 and extract_port_objects.py:53-55).       *)
Blueprints ==
    << [identifier |-> "cargProject",
        properties |-> [status |-> "string", budget |-> "number", tags |-> "array",
                        archived |-> "boolean", details |-> "object"],
        relations |-> {}],
       [identifier |-> "cargService",
        properties |-> [status |-> "string"],
        relations |-> {"project"}],
       [identifier |-> "cargComponent",
        properties |-> [type |-> "string", testCoverage |-> "number"],
        relations |-> {"service"}],
       [identifier |-> "cargDeployment",
        properties |-> [status |-> "string", duration |-> "number"],
        relations |-> {"service"}] >>

BlueprintIds == { Blueprints[i].identifier : i \in 1..Len(Blueprints) }

ObjId(kind, i) == [kind |-> kind, i |-> i]

Msg(id, text, arg) == [obj |-> id, text |-> text, arg |-> arg]

(* required_fields (validate_port_objects.py:82, extract_port_objects.py:188) *)
RequiredFields == <<"identifier", "title", "blueprint">>

FieldOf(obj, field) ==
    CASE field = "identifier" -> obj.identifier
      [] field = "title" -> obj.title
      [] field = "blueprint" -> obj.blueprint

---------------------------------------------------------------------------
(* PortObjectValidator._validate_single_object                              *)
(* (validate_port_objects.py:76-116)                                        *)
_validate_single_object(obj, id) ==
    LET MissingOrEmpty(f) == ~Has(FieldOf(obj, f)) \/ ~Truthy(FieldOf(obj, f))
        MissingMsg(f) == Msg(id, "Missing or empty required field", f)
        required == [i \in 1..Len(SelectSeq(RequiredFields, MissingOrEmpty)) |->
                        MissingMsg(SelectSeq(RequiredFields, MissingOrEmpty)[i])]
        unknown ==
            IF Truthy(obj.blueprint)
               /\ ~(IsStr(obj.blueprint) /\ obj.blueprint.s \in BlueprintIds)
              THEN <<Msg(id, "Unknown blueprint", obj.blueprint.s)>> ELSE <<>>
        ident ==
            IF Truthy(obj.identifier) /\ ~IsStr(obj.identifier)
              THEN <<Msg(id, "Identifier must be string", obj.identifier.t)>> ELSE <<>>
        IsNull(e) == e.value.t = "none"
        NullMsg(e) == Msg(id, "Property is null", e.name)
        props ==
            IF obj.properties.t = "absent" THEN <<>>
            ELSE IF obj.properties.t # "dict"
              THEN <<Msg(id, "Properties must be a dictionary", "")>>
            ELSE <<>>
        nulls ==
            IF obj.properties.t = "dict"
              THEN [i \in 1..Len(SelectSeq(obj.properties.d, IsNull)) |->
                        NullMsg(SelectSeq(obj.properties.d, IsNull)[i])]
              ELSE <<>>
        NotStr(e) == ~IsStr(e.value)
        RelMsg(e) == Msg(id, "Relation must be string identifier", e.name)
        rels ==
            IF obj.relations.t = "absent" THEN <<>>
            ELSE IF obj.relations.t # "dict"
              THEN <<Msg(id, "Relations must be a dictionary", "")>>
            ELSE [i \in 1..Len(SelectSeq(obj.relations.d, NotStr)) |->
                        RelMsg(SelectSeq(obj.relations.d, NotStr)[i])]
    IN  [errors |-> required \o unknown \o ident \o props \o rels,
         warnings |-> nulls]

(* PortObjectValidator.validate_port_objects                                *)
(* (validate_port_objects.py:29-74). `checked` records the objects handed   *)
(* to _validate_single_object, in order.                                    *)
NewResults ==
    [valid |-> TRUE, total_objects |-> 0, validation_errors |-> <<>>,
     validation_warnings |-> <<>>, summary |-> <<>>, checked |-> <<>>]

NewKindResults(kind, objects) ==
    [kind |-> kind, count |-> Len(objects), valid_objects |-> 0,
     errors |-> <<>>, warnings |-> <<>>]

(* the loop over the objects of one kind (validate_port_objects.py:49-62) *)
RECURSIVE ValidateObjects(_, _, _, _, _)
ValidateObjects(kind, objects, i, res, kres) ==
    IF i > Len(objects) THEN [res |-> res, kres |-> kres]
    ELSE LET id == ObjId(kind, i - 1)
             rep == _validate_single_object(objects[i], id)
             bad == rep.errors # <<>>
             res1 == [res EXCEPT
                        !.validation_errors = @ \o rep.errors,
                        !.valid = IF bad THEN FALSE ELSE @,
                        !.validation_warnings = @ \o rep.warnings,
                        !.checked = Append(@, id)]
             kres1 == [kres EXCEPT
                        !.errors = @ \o rep.errors,
                        !.valid_objects = IF bad THEN @ ELSE @ + 1,
                        !.warnings = @ \o rep.warnings]
         IN  ValidateObjects(kind, objects, i + 1, res1, kres1)

(* the loop over the kinds (validate_port_objects.py:39-72) *)
RECURSIVE ValidateKinds(_, _, _)
ValidateKinds(input, k, res) ==
    IF k > Len(input) THEN res
    ELSE LET kind == input[k].kind
             objects == input[k].objects
             done == ValidateObjects(kind, objects, 1, res, NewKindResults(kind, objects))
             res1 == [done.res EXCEPT
                        !.total_objects = @ + Len(objects),
                        !.summary = Append(@, done.kres)]
         IN  ValidateKinds(input, k + 1, res1)

validate_port_objects(input) == ValidateKinds(input, 1, NewResults)

---------------------------------------------------------------------------
(* PortObjectExtractor.validate_object_against_blueprint                    *)
(* (extract_port_objects.py:183-222). `.items()` of a member that is no     *)
(* dict raises AttributeError, which nothing here catches.                  *)
TypeMismatch(prop_type, v) ==
    CASE prop_type = "string" -> ~IsStr(v)
      [] prop_type = "number" -> ~IsNumber(v)
      [] prop_type = "boolean" -> ~IsBool(v)
      [] prop_type = "array" -> ~IsList(v)
      [] OTHER -> FALSE

validate_object_against_blueprint(obj, blueprint, id) ==
    LET Missing(f) == ~Has(FieldOf(obj, f))
        MissingMsg(f) == Msg(id, "Missing required field", f)
        required == [i \in 1..Len(SelectSeq(RequiredFields, Missing)) |->
                        MissingMsg(SelectSeq(RequiredFields, Missing)[i])]
        BadProp(e) ==
            /\ e.name \in DOMAIN blueprint.properties
            /\ TypeMismatch(blueprint.properties[e.name], e.value)
        PropMsg(e) == Msg(id, "Property should be " \o blueprint.properties[e.name], e.name)
        props ==
            IF obj.properties.t = "dict"
              THEN [i \in 1..Len(SelectSeq(obj.properties.d, BadProp)) |->
                        PropMsg(SelectSeq(obj.properties.d, BadProp)[i])]
              ELSE <<>>
        BadRel(e) == e.name \notin blueprint.relations
        RelMsg(e) == Msg(id, "Unknown relation", e.name)
        rels ==
            IF obj.relations.t = "dict"
              THEN [i \in 1..Len(SelectSeq(obj.relations.d, BadRel)) |->
                        RelMsg(SelectSeq(obj.relations.d, BadRel)[i])]
              ELSE <<>>
    IN  [raised |-> \/ obj.properties.t \notin {"absent", "dict"}
                    \/ obj.relations.t \notin {"absent", "dict"},
         errors |-> required \o props \o rels]

(* PortObjectExtractor.validate_against_blueprints                          *)
(* (extract_port_objects.py:132-181). `checked` records the objects handed  *)
(* to validate_object_against_blueprint, in order; `raised` that an         *)
(* exception left the function.                                             *)
NewValidationResults ==
    [valid |-> TRUE, errors |-> <<>>, warnings |-> <<>>, stats |-> <<>>,
     checked |-> <<>>, raised |-> FALSE]

KindId(kind) == ObjId(kind, -1)

(* blueprint_id = objects[0].get("blueprint") (extract_port_objects.py:142-146) *)
FirstBlueprint(objects) ==
    IF Len(objects) > 0 /\ Has(objects[1].blueprint) THEN objects[1].blueprint ELSE PyNone

(* the registry entries whose identifier equals blueprint_id                *)
(* (extract_port_objects.py:154-158)                                        *)
Matching(blueprint_id) ==
    { i \in 1..Len(Blueprints) :
        IsStr(blueprint_id) /\ Blueprints[i].identifier = blueprint_id.s }

(* the loop over the objects of one kind (extract_port_objects.py:172-179) *)
RECURSIVE CheckObjects(_, _, _, _, _, _)
CheckObjects(kind, objects, blueprint, i, res, st) ==
    IF i > Len(objects) \/ res.raised THEN [res |-> res, st |-> st]
    ELSE LET id == ObjId(kind, i - 1)
             rep == validate_object_against_blueprint(objects[i], blueprint, id)
             bad == rep.errors # <<>>
             res1 == IF rep.raised
                       THEN [res EXCEPT !.raised = TRUE, !.checked = Append(@, id)]
                       ELSE [res EXCEPT
                               !.errors = @ \o rep.errors,
                               !.valid = IF bad THEN FALSE ELSE @,
                               !.checked = Append(@, id)]
             st1 == IF rep.raised THEN st
                    ELSE [st EXCEPT !.errors = IF bad THEN @ + 1 ELSE @,
                                    !.valid = IF bad THEN @ ELSE @ + 1]
         IN  CheckObjects(kind, objects, blueprint, i + 1, res1, st1)

(* the loop over the kinds (extract_port_objects.py:141-179) *)
RECURSIVE CheckKinds(_, _, _)
CheckKinds(input, k, res) ==
    IF k > Len(input) \/ res.raised THEN res
    ELSE LET kind == input[k].kind
             objects == input[k].objects
             blueprint_id == FirstBlueprint(objects)
         IN  IF ~Truthy(blueprint_id)
               THEN CheckKinds(input, k + 1,
                        [res EXCEPT
                           !.errors = Append(@, Msg(KindId(kind), "No blueprint found for kind", kind)),
                           !.valid = FALSE])
             ELSE IF Matching(blueprint_id) = {}
               THEN CheckKinds(input, k + 1,
                        [res EXCEPT
                           !.errors = Append(@, Msg(KindId(kind), "Blueprint not found for kind", kind)),
                           !.valid = FALSE])
             ELSE LET blueprint == Blueprints[CHOOSE i \in Matching(blueprint_id) :
                                                \A j \in Matching(blueprint_id) : i <= j]
                      st == [kind |-> kind, total |-> Len(objects), valid |-> 0, errors |-> 0]
                      done == CheckObjects(kind, objects, blueprint, 1, res, st)
                  IN  CheckKinds(input, k + 1,
                          IF done.res.raised THEN done.res
                          ELSE [done.res EXCEPT !.stats = Append(@, done.st)])

validate_against_blueprints(input) == CheckKinds(input, 1, NewValidationResults)

---------------------------------------------------------------------------
(* Inputs of the validators: port_objects maps kinds to object lists.       *)
KindNames == <<"carg-project", "carg-service">>

Identifiers == {Absent, PyStr(""), PyStr("p1"), PyInt(7)}

Titles == {Absent, PyStr(""), PyStr("E-Commerce Platform")}

BlueprintNames ==
    {Absent, PyStr(""), PyStr("cargProject"), PyStr("cargService"), PyStr("cargTeam")}

PropertyNames == {"status", "budget", "tags", "archived", "details", "extra"}

PropertyValues == {PyNone, PyStr("Active"), PyInt(3), PyBool(TRUE), PyList(1)}

PropertyMembers ==
    {NoMember, NotADict, Dict(<<>>)}
    \cup { Dict(<<Entry(n, v)>>) : n \in PropertyNames, v \in PropertyValues }

RelationMembers ==
    {NoMember, NotADict, Dict(<<Entry("project", PyStr("p1"))>>),
     Dict(<<Entry("project", PyInt(1))>>), Dict(<<Entry("owner", PyStr("u1"))>>)}

(* every combination of the field values above, for one object *)
Objects ==
    { Object(id, ti, bp, pr, re) :
        id \in Identifiers, ti \in Titles, bp \in BlueprintNames,
        pr \in PropertyMembers, re \in RelationMembers }

(* objects that differ in identifier and blueprint only, for the lists *)
ListObjects ==
    { Object(id, PyStr("E-Commerce Platform"), bp, NoMember, NoMember) :
        id \in {Absent, PyStr("p1")},
        bp \in {Absent, PyStr("cargProject"), PyStr("cargTeam")} }

ObjectLists == UNION { [1..n -> ListObjects] : n \in 0..MaxObjs }

KindEntry(k, objects) == [kind |-> KindNames[k], objects |-> objects]

Inputs ==
    { <<KindEntry(1, <<o>>)>> : o \in Objects }
    \cup { <<KindEntry(1, l)>> : l \in ObjectLists }
    \cup { <<KindEntry(1, l1), KindEntry(2, l2)>> : l1, l2 \in ObjectLists }
    \cup { <<>> }

ValInit ==
    /\ port_objects \in Inputs
    /\ vpc = {}
    /\ results = NewResults
    /\ validation_results = NewValidationResults

(* validator.validate_port_objects(port_objects) (validate_port_objects.py:194) *)
ValidatePortObjects ==
    /\ "validate_port_objects" \notin vpc
    /\ results' = validate_port_objects(port_objects)
    /\ vpc' = vpc \cup {"validate_port_objects"}
    /\ UNCHANGED <<port_objects, validation_results, fetchVars, sem, concVars, mapVars, hookVars, cliVars, pairVars>>

(* extractor.validate_against_blueprints(port_objects) (extract_port_objects.py:344) *)
ValidateAgainstBlueprints ==
    /\ "validate_against_blueprints" \notin vpc
    /\ validation_results' = validate_against_blueprints(port_objects)
    /\ vpc' = vpc \cup {"validate_against_blueprints"}
    /\ UNCHANGED <<port_objects, results, fetchVars, sem, concVars, mapVars, hookVars, cliVars, pairVars>>

ValNext ==
    \/ ValidatePortObjects
    \/ ValidateAgainstBlueprints

---------------------------------------------------------------------------
(* Direct mapping (extract_port_json.py:75-158). A raw item is a dict: here *)
(* a function from the recognized field names to values, Absent for a key   *)
(* the item does not hold; the members of a nested record "owner" are kept  *)
(* under "owner.email", "owner.username".                                   *)
PyDict == PyVal("dict", "", 1)

EmptyDict == PyVal("dict", "", 0)

(* str(v) (extract_port_json.py:78, 96, 111, 118, 130, 142, 156) *)
Str(v) ==
    CASE v.t = "str" -> v.s
      [] v.t = "int" -> ToString(v.n)
      [] v.t = "bool" -> IF v.n = 1 THEN "True" ELSE "False"
      [] v.t = "none" -> "None"
      [] v.t = "list" -> "[...]"
      [] v.t = "dict" -> "{...}"

(* d.get(key) and d.get(key, default) *)
Get(d, key) == IF Has(d[key]) THEN d[key] ELSE PyNone

GetOr(d, key, default) == IF Has(d[key]) THEN d[key] ELSE default

(* d.get(key, {}): the nested record *)
Nested(d, key) == GetOr(d, key, EmptyDict)

(* d.get(key, {}).get(sub): AttributeError when the member is no dict *)
SubRaises(d, key) == Nested(d, key).t # "dict"

SubGet(d, key, sub) ==
    IF Nested(d, key) = PyDict /\ Has(d[key \o "." \o sub])
      THEN d[key \o "." \o sub] ELSE PyNone

(* a or b *)
Or(a, b) == IF Truthy(a) THEN a ELSE b

Result(raised, obj) == [raised |-> raised, obj |-> obj]

_transform_project(project) ==
    Result(SubRaises(project, "owner") \/ SubRaises(project, "azure_devops"),
        Object(PyStr(Str(GetOr(project, "id", PyStr("")))),
               GetOr(project, "name", PyStr("")),
               PyStr("cargProject"),
               Dict(<<Entry("status", Get(project, "status")),
                      Entry("description", Get(project, "description")),
                      Entry("owner", Or(SubGet(project, "owner", "email"),
                                        SubGet(project, "owner", "username"))),
                      Entry("budget", Get(project, "budget")),
                      Entry("startDate", Get(project, "start_date")),
                      Entry("endDate", Get(project, "end_date")),
                      Entry("tags", GetOr(project, "tags", PyList(0))),
                      Entry("azureDevOpsProject",
                            SubGet(project, "azure_devops", "project_name"))>>),
               NoMember))

(* str(service.get("project_id", "")) (extract_port_json.py:111) *)
RelationValue_Raw(d, key) == GetOr(d, key, PyStr(""))

RelationValue(d, key) == PyStr(Str(GetOr(d, key, PyStr(""))))

_transform_service(service) ==
    Result(\/ SubRaises(service, "repository") \/ SubRaises(service, "metrics")
           \/ SubRaises(service, "last_deployment") \/ SubRaises(service, "azure_devops"),
        Object(PyStr(Str(GetOr(service, "id", PyStr("")))),
               GetOr(service, "name", PyStr("")),
               PyStr("cargService"),
               Dict(<<Entry("status", Get(service, "status")),
                      Entry("healthStatus", GetOr(service, "health_status", PyStr("Unknown"))),
                      Entry("version", Get(service, "version")),
                      Entry("repository", SubGet(service, "repository", "url")),
                      Entry("language", Get(service, "language")),
                      Entry("cpu", SubGet(service, "metrics", "cpu_usage")),
                      Entry("memory", SubGet(service, "metrics", "memory_usage_mb")),
                      Entry("lastDeployment", SubGet(service, "last_deployment", "timestamp")),
                      Entry("azurePipeline",
                            SubGet(service, "azure_devops", "pipeline_name"))>>),
               Dict(<<Entry("project", RelationValue(service, "project_id"))>>)))

_transform_component(component) ==
    Result(SubRaises(component, "maintainer"),
        Object(PyStr(Str(GetOr(component, "id", PyStr("")))),
               GetOr(component, "name", PyStr("")),
               PyStr("cargComponent"),
               Dict(<<Entry("type", Get(component, "type")),
                      Entry("status", Get(component, "status")),
                      Entry("description", Get(component, "description")),
                      Entry("maintainer", Or(SubGet(component, "maintainer", "email"),
                                             SubGet(component, "maintainer", "username"))),
                      Entry("complexity", Get(component, "complexity")),
                      Entry("testCoverage", Get(component, "test_coverage"))>>),
               Dict(<<Entry("service", RelationValue(component, "service_id"))>>)))

(* f"{service_name} - {environment} - {version}" (extract_port_json.py:136-139) *)
Title(deployment) ==
    PyStr(Str(GetOr(deployment, "service_name", PyStr(""))) \o " - "
          \o Str(GetOr(deployment, "environment", PyStr(""))) \o " - "
          \o Str(GetOr(deployment, "version", PyStr(""))))

_transform_deployment(deployment) ==
    Result(SubRaises(deployment, "deployed_by") \/ SubRaises(deployment, "azure_devops"),
        Object(PyStr(Str(GetOr(deployment, "id", PyStr("")))),
               Title(deployment),
               PyStr("cargDeployment"),
               Dict(<<Entry("status", Get(deployment, "status")),
                      Entry("environment", Get(deployment, "environment")),
                      Entry("version", Get(deployment, "version")),
                      Entry("deployedBy", Or(SubGet(deployment, "deployed_by", "email"),
                                             SubGet(deployment, "deployed_by", "username"))),
                      Entry("deploymentTime", Get(deployment, "deployment_time")),
                      Entry("duration", Get(deployment, "duration_seconds")),
                      Entry("azurePipelineRun", SubGet(deployment, "azure_devops", "run_id")),
                      Entry("logs", Get(deployment, "logs"))>>),
               Dict(<<Entry("service", RelationValue(deployment, "service_id"))>>)))

(* The recognized source fields of each kind (extract_port_json.py:75-158) *)
ProjectFields ==
    {"id", "name", "status", "description", "owner", "owner.email", "owner.username",
     "budget", "start_date", "end_date", "tags", "azure_devops",
     "azure_devops.project_name"}

ServiceFields ==
    {"id", "name", "status", "health_status", "version", "repository", "repository.url",
     "language", "metrics", "metrics.cpu_usage", "metrics.memory_usage_mb",
     "last_deployment", "last_deployment.timestamp", "azure_devops",
     "azure_devops.pipeline_name", "project_id"}

ComponentFields ==
    {"id", "name", "type", "status", "description", "maintainer", "maintainer.email",
     "maintainer.username", "complexity", "test_coverage", "service_id"}

DeploymentFields ==
    {"id", "service_name", "environment", "version", "status", "deployed_by",
     "deployed_by.email", "deployed_by.username", "deployment_time", "duration_seconds",
     "azure_devops", "azure_devops.run_id", "logs", "service_id"}

FieldsOf(kind) ==
    CASE kind = "carg-project" -> ProjectFields
      [] kind = "carg-service" -> ServiceFields
      [] kind = "carg-component" -> ComponentFields
      [] kind = "carg-deployment" -> DeploymentFields

MappedKinds == {"carg-project", "carg-service", "carg-component", "carg-deployment"}

IdFields == {"id", "project_id", "service_id"}

NestedFields ==
    {"owner", "azure_devops", "repository", "metrics", "last_deployment", "maintainer",
     "deployed_by"}

NumberFields ==
    {"budget", "metrics.cpu_usage", "metrics.memory_usage_mb", "test_coverage",
     "duration_seconds"}

(* a populated value of a field, as the fixtures hold them (client.py:289-447) *)
Populated(f) ==
    CASE f \in IdFields -> PyInt(1)
      [] f \in NestedFields -> PyDict
      [] f \in NumberFields -> PyInt(3)
      [] f = "tags" -> PyList(2)
      [] OTHER -> PyStr(f)

(* another value a remote may send for the field: a string id, a JSON null *)
Alt(f) == IF f \in IdFields THEN PyStr("p1") ELSE PyNone

Few(fields) == { S \in SUBSET fields : Cardinality(S) <= MaxMissing }

(* the populated item of a kind with a few fields missing or holding the    *)
(* other value, and the item with no field at all                           *)
RawItems(kind) ==
    UNION { { [f \in FieldsOf(kind) |->
                 IF f \in S THEN (IF f \in A THEN Alt(f) ELSE Absent) ELSE Populated(f)]
              : A \in SUBSET S }
            : S \in Few(FieldsOf(kind)) }
    \cup { [f \in FieldsOf(kind) |-> Absent] }

RawInputs == UNION { { [kind |-> k, item |-> it] : it \in RawItems(k) } : k \in MappedKinds }

NoRaw == [kind |-> "none", item |-> <<>>]

---------------------------------------------------------------------------
(* Expression mapping (extract_port_simple.py:78-104,                       *)
(* extract_port_objects.py:105-130). What                                   *)
(* jq.compile(expr).input(item).first() does for an expression on the item  *)
(* is part of the input: it yields a value (null included) or it raises.    *)
Yields(v) == [fails |-> FALSE, value |-> v]

Fails == [fails |-> TRUE, value |-> PyNone]

NoneMember == [t |-> "none", d |-> <<>>]

First(jq_expr, item) == jq_expr

(* SimplePortExtractor._transform_item (extract_port_simple.py:78-104) *)
_transform_item(item, mappings_) ==
    LET Field(ev, absent) == IF ~ev.fails /\ ev.value.t # "none" THEN ev.value ELSE absent
        Kept(e) == ~First(e.value, item).fails /\ First(e.value, item).value.t # "none"
        rels == SelectSeq(mappings_.relations, Kept)
        relations == [i \in 1..Len(rels) |-> Entry(rels[i].name, First(rels[i].value, item).value)]
    IN  Object(Field(First(mappings_.identifier, item), Absent),
               Field(First(mappings_.title, item), Absent),
               Field(First(mappings_.blueprint, item), Absent),
               Field(First(mappings_.properties, item), NoMember),
               IF relations # <<>> THEN Dict(relations) ELSE NoMember)

(* PortObjectExtractor.transform_to_port_object                             *)
(* (extract_port_objects.py:105-130): one try block encloses the whole      *)
(* relations loop and the assignment that follows it.                       *)
transform_to_port_object(raw_data, mappings_) ==
    LET Field(ev, absent) == IF ~ev.fails /\ ev.value.t # "none" THEN ev.value ELSE absent
        Failed(e) == First(e.value, raw_data).fails
        Kept(e) == First(e.value, raw_data).value.t # "none"
        rels == SelectSeq(mappings_.relations, Kept)
        relations == [i \in 1..Len(rels) |->
                        Entry(rels[i].name, First(rels[i].value, raw_data).value)]
    IN  Object(Field(First(mappings_.identifier, raw_data), Absent),
               Field(First(mappings_.title, raw_data), Absent),
               Field(First(mappings_.blueprint, raw_data), Absent),
               Field(First(mappings_.properties, raw_data), NoMember),
               IF SelectSeq(mappings_.relations, Failed) = <<>> /\ relations # <<>>
                 THEN Dict(relations) ELSE NoMember)

Evaluations == {Yields(PyStr("1")), Yields(PyNone), Fails}

RelationMappings ==
    {<<>>}
    \cup { <<Entry("project", e)>> : e \in Evaluations }
    \cup { <<Entry("project", e1), Entry("team", e2)>> : e1, e2 \in Evaluations }

MappingSpecs ==
    [identifier : Evaluations \cup {Yields(PyInt(1))},
     title : {Yields(PyStr("User Service")), Yields(PyNone), Fails},
     blueprint : {Yields(PyStr("cargService")), Fails},
     properties : {Yields(Dict(<<Entry("status", PyStr("Active"))>>)), Yields(NoneMember),
                   Fails},
     relations : RelationMappings]

NoMappings ==
    [identifier |-> Fails, title |-> Fails, blueprint |-> Fails, properties |-> Fails,
     relations |-> <<>>]

---------------------------------------------------------------------------
(* Mapping one raw item, then validating what was mapped                    *)
(* (extract_port_json.py:38-73, extract_port_simple.py:46-76,               *)
(* extract_port_objects.py:67-103, validate_port_objects.py:185-194)        *)
MapInit ==
    /\ \/ mpc = "raw" /\ raw \in RawInputs /\ mappings = NoMappings
       \/ mpc = "mappings" /\ raw = NoRaw /\ mappings \in MappingSpecs
    /\ port_objects = <<>>
    /\ vpc = {}
    /\ results = NewResults
    /\ validation_results = NewValidationResults

Mapped(kind, mapper, r) ==
    /\ IF r.raised
         THEN mpc' = "raised" /\ UNCHANGED port_objects
         ELSE /\ mpc' = mapper
              /\ port_objects' = <<[kind |-> kind, objects |-> <<r.obj>>]>>
    /\ UNCHANGED <<vpc, results, validation_results, raw, mappings, fetchVars, sem,
                   concVars, hookVars, cliVars, pairVars>>

TransformProject ==
    /\ mpc = "raw" /\ raw.kind = "carg-project"
    /\ Mapped(raw.kind, "_transform_project", _transform_project(raw.item))

TransformService ==
    /\ mpc = "raw" /\ raw.kind = "carg-service"
    /\ Mapped(raw.kind, "_transform_service", _transform_service(raw.item))

TransformComponent ==
    /\ mpc = "raw" /\ raw.kind = "carg-component"
    /\ Mapped(raw.kind, "_transform_component", _transform_component(raw.item))

TransformDeployment ==
    /\ mpc = "raw" /\ raw.kind = "carg-deployment"
    /\ Mapped(raw.kind, "_transform_deployment", _transform_deployment(raw.item))

TransformItem ==
    /\ mpc = "mappings"
    /\ Mapped("carg-service", "_transform_item",
              Result(FALSE, _transform_item(raw.item, mappings)))

TransformToPortObject ==
    /\ mpc = "mappings"
    /\ Mapped("carg-service", "transform_to_port_object",
              Result(FALSE, transform_to_port_object(raw.item, mappings)))

DirectMappers ==
    {"_transform_project", "_transform_service", "_transform_component",
     "_transform_deployment"}

ExpressionMappers == {"_transform_item", "transform_to_port_object"}

ValidateMapped ==
    /\ mpc \in DirectMappers \cup ExpressionMappers
    /\ ValNext

MapNext ==
    \/ TransformProject
    \/ TransformService
    \/ TransformComponent
    \/ TransformDeployment
    \/ TransformItem
    \/ TransformToPortObject
    \/ ValidateMapped

---------------------------------------------------------------------------
(* Webhook registration (client.py:242-286). Each step below is one         *)
(* _send_api_request call of create_webhooks with the remote's answer; the  *)
(* permit of the semaphore is taken and given back within the step.         *)
Hosts == {"https://a.example", "https://b.example"}

(* webhook_url = f"{app_host}/integration/webhook" (client.py:257) *)
WebhookUrl(host) == host \o "/integration/webhook"

Webhook(url) == [url |-> url]

(* bodies of GET webhooks/permissions and GET webhooks on the remote *)
PermissionsBody(granted) ==
    ("canCreateWebhooks" :> granted)
    @@ DictBody({"canCreateWebhooks"}, <<>>, <<>>, 0, FALSE)

WebhooksBody(list) == DictBody({"data"}, list, <<>>, 0, FALSE)

(* What _send_api_request does with the outcome o of the request            *)
(* (client.py:104-137): the body, the mock data, an exception that leaves   *)
(* the call (C3), or the sleep and the reissued request.                    *)
Returned(body) == [raised |-> FALSE, retry |-> FALSE, body |-> body]

Raised == [raised |-> TRUE, retry |-> FALSE, body |-> NoBody]

Retried == [raised |-> FALSE, retry |-> TRUE, body |-> NoBody]

_send_api_request(endpoint, o, body) ==
    IF ~configured THEN Returned(_get_mock_data_for_endpoint(endpoint))
    ELSE IF o = OkOutcome THEN Returned(body)
    ELSE IF IsRateLimit(o)
      THEN IF IntParses(RetryAfterText(o)) THEN Retried ELSE Raised
    ELSE IF IsCaught(o) THEN Returned(_get_mock_data_for_endpoint(endpoint))
    ELSE Raised

HookOutcomes == {OkOutcome} \cup RateLimitOutcomes \cup ErrorOutcomes

(* response.get("canCreateWebhooks", False), False after an exception       *)
(* (client.py:244-249)                                                      *)
Granted(r) ==
    /\ ~r.raised
    /\ "canCreateWebhooks" \in r.body.keys
    /\ r.body.canCreateWebhooks

(* a webhook of existing_webhooks.get("data", []) has the url (client.py:262-265) *)
Exists(r, url) ==
    /\ ~r.raised
    /\ "data" \in r.body.keys
    /\ \E j \in 1..Len(r.body.data) : r.body.data[j].url = url

Held(url) == Cardinality({ j \in 1..Len(webhooks) : webhooks[j].url = url })

IsRejected(p) == p.status = 429

HookInit ==
    /\ can_create \in BOOLEAN
    /\ webhooks \in {<<>>} \cup { <<Webhook(WebhookUrl(h))>> : h \in Hosts }
    /\ hpc = "idle"
    /\ app_host = ""
    /\ hcalls = 0
    /\ posts = <<>>

(* await carg_client.create_webhooks(app_host) *)
CreateWebhooks(host) ==
    /\ hpc = "idle"
    /\ hcalls < MaxCalls
    /\ hcalls' = hcalls + 1
    /\ app_host' = host
    /\ hpc' = "permission"
    /\ UNCHANGED <<can_create, webhooks, posts, fetchVars, sem, concVars, valVars, mapVars,
                   cliVars, pairVars>>

(* client.py:253-255, 242-249 *)
HasWebhookPermission ==
    /\ hpc = "permission"
    /\ \E o \in HookOutcomes :
         LET r == _send_api_request("webhooks/permissions", o, PermissionsBody(can_create))
         IN  hpc' = IF r.retry THEN hpc ELSE IF Granted(r) THEN "existing" ELSE "idle"
    /\ UNCHANGED <<can_create, webhooks, app_host, hcalls, posts, fetchVars, sem, concVars,
                   valVars, mapVars,
                   cliVars, pairVars>>

(* client.py:259-267 *)
CheckExisting ==
    /\ hpc = "existing"
    /\ \E o \in HookOutcomes :
         LET r == _send_api_request("webhooks", o, WebhooksBody(webhooks))
         IN  hpc' = IF r.retry THEN hpc
                    ELSE IF Exists(r, WebhookUrl(app_host)) THEN "idle" ELSE "create"
    /\ UNCHANGED <<can_create, webhooks, app_host, hcalls, posts, fetchVars, sem, concVars,
                   valVars, mapVars,
                   cliVars, pairVars>>

(* client.py:269-286: the POST; the remote stores the webhook when it       *)
(* answers 200                                                              *)
CreateWebhook ==
    /\ hpc = "create"
    /\ \E o \in HookOutcomes :
         LET url == WebhookUrl(app_host)
             r == _send_api_request("webhooks", o, WebhooksBody(<<>>))
         IN  /\ r.retry => Len(SelectSeq(posts, IsRejected)) < Max429
             /\ posts' = Append(posts, [url |-> url, held |-> Held(url), status |-> o.status])
             /\ webhooks' = IF o.status = 200 THEN Append(webhooks, Webhook(url)) ELSE webhooks
             /\ hpc' = IF r.retry THEN hpc ELSE "idle"
    /\ UNCHANGED <<can_create, app_host, hcalls, fetchVars, sem, concVars, valVars, mapVars,
                   cliVars, pairVars>>

HookNext ==
    \/ \E host \in Hosts : CreateWebhooks(host)
    \/ HasWebhookPermission
    \/ CheckExisting
    \/ CreateWebhook

---------------------------------------------------------------------------
(* The command-line programs: validate_port_objects.py (main and cli_main,  *)
(* 165-207) and extract_port_objects.py (main, 313-368). A run reads its    *)
(* files, obtains the objects, validates them and ends with an exit status. *)
Programs == {"validate_port_objects", "extract_port_objects"}

(* `validate`: the run is asked to validate (--validate of                  *)
(* extract_port_objects.py; validate_port_objects.py always validates).     *)
(* `files_ok`: the configuration and blueprint files open and parse.        *)
(* `source_ok`: the objects can be obtained: the --file opens and parses,   *)
(* and the import of the mock client succeeds (validate_port_objects.py:    *)
(* 183-190; extract_port_objects.py:64 imports TestCargAPIClient from the   *)
(* module named main, and main.py defines none). `status` is the exit       *)
(* status, -1 while the run has not ended.                                  *)
Run(program, validate, files_ok, source_ok, at, status) ==
    [program |-> program, validate |-> validate, files_ok |-> files_ok,
     source_ok |-> source_ok, pc |-> at, status |-> status]

NoRun == Run("none", FALSE, FALSE, FALSE, "off", -1)

Runs ==
    { Run("validate_port_objects", TRUE, f, s, "start", -1) : f, s \in BOOLEAN }
    \cup { Run("extract_port_objects", v, f, s, "start", -1) : v, f, s \in BOOLEAN }

(* the objects a run works on: one kind, up to MaxObjs objects *)
CliInputs == { <<KindEntry(1, l)>> : l \in ObjectLists } \cup { <<>> }

(* sys.exit(1) (extract_port_objects.py:60); an exception that leaves       *)
(* asyncio.run(main()) ends the interpreter with status 1 as well.          *)
Failure == 1

(* return 0 if results["valid"] else 1; sys.exit(exit_code)                 *)
(* (validate_port_objects.py:200, 206-207)                                  *)
ExitCode(res) == IF res.valid THEN 0 ELSE 1

(* extract_port_objects.py: main has no return statement and                *)
(* `asyncio.run(main())` (368) is the last statement: the status is 0       *)
(* unless an exception left main.                                           *)
MainReturnsNone(vres) == IF vres.raised THEN Failure ELSE 0

CliInit ==
    /\ run \in Runs
    /\ port_objects \in CliInputs
    /\ vpc = {}
    /\ results = NewResults
    /\ validation_results = NewValidationResults

Exited(status) == [run EXCEPT !.pc = "exited", !.status = status]

(* PortObjectValidator() -> _load_blueprints (validate_port_objects.py:     *)
(* 22-27, 178): open() and json.load() raise, nothing catches.              *)
(* PortObjectExtractor() -> load_configurations (extract_port_objects.py:   *)
(* 45-60, 331): except Exception: sys.exit(1).                              *)
LoadConfigurations ==
    /\ run.pc = "start"
    /\ run' = IF run.files_ok THEN [run EXCEPT !.pc = "loaded"] ELSE Exited(Failure)
    /\ UNCHANGED <<valVars, fetchVars, sem, concVars, mapVars, hookVars, pairVars>>

(* validate_port_objects.py:180-190; extract_port_objects.py:337, 67-103 *)
ObtainObjects ==
    /\ run.pc = "loaded"
    /\ run' = IF run.source_ok THEN [run EXCEPT !.pc = "obtained"] ELSE Exited(Failure)
    /\ UNCHANGED <<valVars, fetchVars, sem, concVars, mapVars, hookVars, pairVars>>

(* validate_port_objects.py:194 *)
ValidatorValidates ==
    /\ run.pc = "obtained"
    /\ run.program = "validate_port_objects"
    /\ ValidatePortObjects

(* extract_port_objects.py:341-344 *)
ExtractorValidates ==
    /\ run.pc = "obtained"
    /\ run.program = "extract_port_objects"
    /\ run.validate
    /\ ValidateAgainstBlueprints

(* validate_port_objects.py:197-207 *)
ValidatorExits ==
    /\ run.pc = "obtained"
    /\ run.program = "validate_port_objects"
    /\ "validate_port_objects" \in vpc
    /\ run' = Exited(ExitCode(results))
    /\ UNCHANGED <<valVars, fetchVars, sem, concVars, mapVars, hookVars, pairVars>>

(* extract_port_objects.py:346-368 *)
ExtractorExits ==
    /\ run.pc = "obtained"
    /\ run.program = "extract_port_objects"
    /\ run.validate => "validate_against_blueprints" \in vpc
    /\ run' = Exited(MainReturnsNone(validation_results))
    /\ UNCHANGED <<valVars, fetchVars, sem, concVars, mapVars, hookVars, pairVars>>

CliNext ==
    \/ LoadConfigurations
    \/ ObtainObjects
    \/ ValidatorValidates
    \/ ExtractorValidates
    \/ ValidatorExits
    \/ ExtractorExits

---------------------------------------------------------------------------
(* Fetches that share one client: invocations of get_paginated_resources    *)
(* (client.py:153-205) on the module-level client (main.py:11), run as      *)
(* tasks of one event loop. A task gives way only at an await: the request  *)
(* on the wire (client.py:112) and the sleep (client.py:125); acquiring a   *)
(* free permit and reading the `client` property do not suspend.            *)
Fetches == 1..NumFetches

(* The transport handle: Ocean's http_async_client, one object of the       *)
(* process (client.py:11, 69), or the n-th httpx.AsyncClient constructed    *)
(* (client.py:82).                                                          *)
Handle(class, n) == [class |-> class, n |-> n]

NoHandle == Handle("None", 0)

(* if self._client is None (client.py:66) *)
NeedsSetup_Always(c) == TRUE

NeedsSetup(c) == c = NoHandle

(* The `client` property (client.py:63-90): `usable` is whether Ocean's     *)
(* client accepts the settings (67-77); if not, the except branch           *)
(* constructs an httpx.AsyncClient (78-88). n counts the setups so far.     *)
client(c, usable, n) ==
    IF NeedsSetup(c)
      THEN (IF usable THEN Handle("http_async_client", 0)
            ELSE Handle("httpx.AsyncClient", n + 1))
      ELSE c

SetupsAfter(c, n) == IF NeedsSetup(c) THEN n + 1 ELSE n

(* if params is None: params = {} (client.py:167-168): the dict that holds  *)
(* the offset is a new one for every invocation.                            *)
NewDict_Default(f) == 0

NewDict(f) == f

Fetch(kind, at, dict, pg, resp, out, reqs, limited, fell) ==
    [resource_kind |-> kind, pc |-> at, params |-> dict, page |-> pg,
     response |-> resp, yielded |-> out, requests |-> reqs,
     limited |-> limited, fallback |-> fell]

NewFetch(kind) == Fetch(kind, "new", 0, 0, NoBody, <<>>, <<>>, 0, FALSE)

(* Data-set sizes tried with several fetches: none, less than a page, more  *)
(* than each number of full pages below MaxPages.                           *)
PairSizes == {0} \cup { k * PAGE_SIZE + 1 : k \in 0..(MaxPages - 1) }

WireRequest(method, endpoint, p, handle) ==
    [method |-> method, endpoint |-> endpoint, skip |-> p.skip, take |-> p.take,
     handle |-> handle]

PairInit ==
    /\ configured \in BOOLEAN
    /\ sem = MAX_CONCURRENT_REQUESTS
    /\ M \in (IF configured THEN PairSizes ELSE {0})
    /\ shape \in (IF configured THEN Shapes
                  ELSE {[list |-> FALSE, key |-> "data", total |-> FALSE, hasMore |-> FALSE]})
    /\ _client = NoHandle
    /\ setups = 0
    /\ dicts = <<>>
    /\ fetches \in [Fetches -> {NewFetch(k) : k \in {"project", "service"}}]

PairFrame ==
    UNCHANGED <<resource_kind, pc, params, page, response, retry_after, yielded,
                requests, answers, concVars, valVars, mapVars, hookVars, cliVars>>

Stepped(f, now) == fetches' = [fetches EXCEPT ![f] = now]

(* client.py:165-173: endpoint, the params dict, skip = 0, take, page = 0 *)
StartFetch(f) ==
    /\ fetches[f].pc = "new"
    /\ dicts' = (NewDict(f) :> [skip |-> 0, take |-> PAGE_SIZE]) @@ dicts
    /\ Stepped(f, [fetches[f] EXCEPT !.pc = "call", !.params = NewDict(f), !.page = 0])
    /\ UNCHANGED <<M, shape, configured, sem, _client, setups>>
    /\ PairFrame

(* client.py:178, 104-106 *)
FetchMock(f) ==
    /\ fetches[f].pc = "call"
    /\ NoApiConfig(configured)
    /\ Stepped(f, [fetches[f] EXCEPT
                     !.response = _get_mock_data_for_endpoint(Endpoint(fetches[f].resource_kind)),
                     !.pc = "returned"])
    /\ UNCHANGED <<M, shape, configured, sem, _client, setups, dicts>>
    /\ PairFrame

(* client.py:178, 108-117: take a permit, read self.client, send *)
FetchSend(f) ==
    /\ fetches[f].pc = "call"
    /\ ~NoApiConfig(configured)
    /\ SemCanAcquire(sem)
    /\ sem' = SemAcquire(sem)
    /\ \E usable \in BOOLEAN :
         /\ _client' = client(_client, usable, setups)
         /\ setups' = SetupsAfter(_client, setups)
    /\ Stepped(f, [fetches[f] EXCEPT
                     !.requests = Append(@, WireRequest("GET", Endpoint(fetches[f].resource_kind),
                                                        dicts[fetches[f].params], _client')),
                     !.pc = "inflight"])
    /\ UNCHANGED <<M, shape, configured, dicts>>
    /\ PairFrame

(* client.py:118-119 *)
FetchAnswerOK(f) ==
    /\ fetches[f].pc = "inflight"
    /\ sem' = SemRelease(sem)
    /\ Stepped(f, [fetches[f] EXCEPT
                     !.response = RemoteBody(shape, M, Last(fetches[f].requests).skip,
                                             Last(fetches[f].requests).take),
                     !.pc = "returned"])
    /\ UNCHANGED <<M, shape, configured, _client, setups, dicts>>
    /\ PairFrame

(* client.py:121-125 *)
FetchAnswer429(f) ==
    /\ fetches[f].pc = "inflight"
    /\ fetches[f].limited < Max429
    /\ sem' = SemRelease(sem)
    /\ \E o \in RateLimitOutcomes :
         Stepped(f, [fetches[f] EXCEPT
                       !.limited = @ + 1,
                       !.pc = IF IntParses(RetryAfterText(o)) THEN "sleep" ELSE "raised"])
    /\ UNCHANGED <<M, shape, configured, _client, setups, dicts>>
    /\ PairFrame

(* client.py:128-137 *)
FetchAnswerError(f) ==
    /\ fetches[f].pc = "inflight"
    /\ sem' = SemRelease(sem)
    /\ \E o \in ErrorOutcomes :
         Stepped(f, [fetches[f] EXCEPT
                       !.response = IF IsCaught(o)
                                      THEN _get_mock_data_for_endpoint(Last(fetches[f].requests).endpoint)
                                      ELSE @,
                       !.fallback = TRUE,
                       !.pc = IF IsCaught(o) THEN "returned" ELSE "raised"])
    /\ UNCHANGED <<M, shape, configured, _client, setups, dicts>>
    /\ PairFrame

(* client.py:125-126, 104-117: the sleep ends; the recursive call takes a   *)
(* permit, reads self.client and sends the request it was given.            *)
FetchReissue(f) ==
    /\ fetches[f].pc = "sleep"
    /\ SemCanAcquire(sem)
    /\ sem' = SemAcquire(sem)
    /\ \E usable \in BOOLEAN :
         /\ _client' = client(_client, usable, setups)
         /\ setups' = SetupsAfter(_client, setups)
    /\ Stepped(f, [fetches[f] EXCEPT
                     !.requests = Append(@, [ReissuedRequest(Last(fetches[f].requests))
                                               EXCEPT !.handle = _client']),
                     !.pc = "inflight"])
    /\ UNCHANGED <<M, shape, configured, dicts>>
    /\ PairFrame

(* client.py:180-205: one pass of the loop body after the response *)
FetchProcess(f) ==
    /\ fetches[f].pc = "returned"
    /\ LET me == fetches[f]
           items == ItemsOf(me.response)
       IN  IF BreaksBeforeYield(items)
             THEN /\ Stepped(f, [me EXCEPT !.pc = "done"])
                  /\ dicts' = dicts
             ELSE IF BreaksAfterYield(me.response, dicts[me.params].skip)
               THEN /\ Stepped(f, [me EXCEPT !.yielded = Append(@, items), !.pc = "done"])
                    /\ dicts' = dicts
               ELSE /\ Stepped(f, [me EXCEPT !.yielded = Append(@, items),
                                             !.page = @ + 1, !.pc = "call"])
                    /\ dicts' = [dicts EXCEPT ![me.params] = NextParams(@)]
    /\ UNCHANGED <<M, shape, configured, sem, _client, setups>>
    /\ PairFrame

PairNext ==
    \E f \in Fetches :
        \/ StartFetch(f)
        \/ FetchMock(f)
        \/ FetchSend(f)
        \/ FetchAnswerOK(f)
        \/ FetchAnswer429(f)
        \/ FetchAnswerError(f)
        \/ FetchReissue(f)
        \/ FetchProcess(f)

---------------------------------------------------------------------------
(* Values of the parts a specification does not exercise *)
FetchIdle ==
    /\ M = 0
    /\ shape = [list |-> FALSE, key |-> "data", total |-> FALSE, hasMore |-> FALSE]
    /\ resource_kind = "project"
    /\ pc = "off"
    /\ params = [skip |-> 0, take |-> PAGE_SIZE]
    /\ page = 0
    /\ response = NoBody
    /\ retry_after = 0
    /\ yielded = <<>>
    /\ requests = <<>>
    /\ answers = <<>>

FetchOff == configured = TRUE /\ FetchIdle

ConcOff == tpc = <<>>

ValOff ==
    /\ port_objects = <<>>
    /\ vpc = {}
    /\ results = NewResults
    /\ validation_results = NewValidationResults

MapOff ==
    /\ raw = NoRaw
    /\ mappings = NoMappings
    /\ mpc = "off"

HookOff ==
    /\ can_create = FALSE
    /\ webhooks = <<>>
    /\ hpc = "off"
    /\ app_host = ""
    /\ hcalls = 0
    /\ posts = <<>>

CliOff == run = NoRun

PairOff ==
    /\ _client = NoHandle
    /\ setups = 0
    /\ dicts = <<>>
    /\ fetches = <<>>

---------------------------------------------------------------------------
Init == FetchInit /\ ConcOff /\ ValOff /\ MapOff /\ HookOff /\ CliOff /\ PairOff

Next == FetchNext

Spec == Init /\ [][Next]_vars

(* The fetch under fair scheduling: the event loop resumes the fetch        *)
(* whenever it can go on (a free permit, a sleep that has run out), and     *)
(* every request on the wire ends, with an answer or with the client's      *)
(* timeout (client.py:16, 70).                                              *)
SpecLive == Spec /\ WF_vars(Next)

InitConc == ConcInit /\ FetchOff /\ ValOff /\ MapOff /\ HookOff /\ CliOff /\ PairOff

NextConc == ConcNext

SpecConc == InitConc /\ [][NextConc]_vars

InitValidate ==
    /\ ValInit /\ FetchOff /\ ConcOff /\ sem = MAX_CONCURRENT_REQUESTS /\ MapOff /\ HookOff
    /\ CliOff /\ PairOff

NextValidate == ValNext

SpecValidate == InitValidate /\ [][NextValidate]_vars

InitMap ==
    /\ MapInit /\ FetchOff /\ ConcOff /\ sem = MAX_CONCURRENT_REQUESTS /\ HookOff
    /\ CliOff /\ PairOff

NextMap == MapNext

SpecMap == InitMap /\ [][NextMap]_vars

InitWebhook ==
    /\ HookInit
    /\ configured \in BOOLEAN
    /\ FetchIdle /\ ConcOff /\ sem = MAX_CONCURRENT_REQUESTS /\ ValOff /\ MapOff
    /\ CliOff /\ PairOff

NextWebhook == HookNext

SpecWebhook == InitWebhook /\ [][NextWebhook]_vars

InitCli ==
    /\ CliInit /\ FetchOff /\ ConcOff /\ sem = MAX_CONCURRENT_REQUESTS /\ MapOff /\ HookOff
    /\ PairOff

NextCli == CliNext

SpecCli == InitCli /\ [][NextCli]_vars

InitPair ==
    /\ PairInit
    /\ resource_kind = "project" /\ pc = "off" /\ params = [skip |-> 0, take |-> PAGE_SIZE]
    /\ page = 0 /\ response = NoBody /\ retry_after = 0
    /\ yielded = <<>> /\ requests = <<>> /\ answers = <<>>
    /\ ConcOff /\ ValOff /\ MapOff /\ HookOff /\ CliOff

NextPair == PairNext

SpecPair == InitPair /\ [][NextPair]_vars

---------------------------------------------------------------------------
(* Properties of the fetch (specification Spec)                             *)

AllOk == \A i \in 1..Len(answers) : answers[i] = OkOutcome

IsNotRateLimit(o) == ~IsRateLimit(o)

RateLimitCount == Len(SelectSeq(answers, IsRateLimit))

(* The pages of a data set of m items cut every PAGE_SIZE items *)
Chunks(m) ==
    [i \in 1..CeilDiv(m, PAGE_SIZE) |-> Slice(m, (i - 1) * PAGE_SIZE, PAGE_SIZE)]

(* What a fetch pages out of the remote when nothing fails: a mapping body  *)
(* is paged through, a bare list is taken as the whole set at once.         *)
UnthrottledPages(sh, m) ==
    IF sh.list THEN (IF m = 0 THEN <<>> ELSE <<Slice(m, 0, PAGE_SIZE)>>)
    ELSE Chunks(m)

(* C1: against a remote that serves M items honestly by skip/take in a      *)
(* mapping body (with or without total/hasMore), a finished fetch has       *)
(* yielded exactly ceil(M/PAGE_SIZE) pages whose concatenation, in order,   *)
(* is the whole data set.                                                   *)
C1_PaginationComplete ==
    (pc = "done" /\ configured /\ ~shape.list /\ AllOk)
        => /\ Len(yielded) = CeilDiv(M, PAGE_SIZE)
           /\ Concat(yielded) = Data(M)

C1_Witness ==
    /\ pc = "done" /\ configured /\ ~shape.list /\ AllOk
    /\ M = 2 * PAGE_SIZE + 1
    /\ Len(yielded) = 3

(* The fixture records expected for a resource kind *)
FixtureOf(kind) ==
    CASE kind = "project" -> _get_mock_projects
      [] kind = "service" -> _get_mock_services
      [] kind = "component" -> _get_mock_components
      [] kind = "deployment" -> _get_mock_deployments
      [] OTHER -> <<>>

(* C2: a request of a configured client that ends in a non-429 HTTP error,  *)
(* a transport failure, a timeout or a body that does not parse never       *)
(* raises: the call returns the mock records of the endpoint's kind, and    *)
(* empty data for an endpoint of no known kind.                             *)
C2_FailSoft ==
    (answers # <<>> /\ Last(answers) \in ErrorOutcomes)
        => /\ pc \in {"returned", "done"}
           /\ response.isdict
           /\ ItemsOf(response) = FixtureOf(resource_kind)

C2_Witness ==
    /\ answers # <<>>
    /\ Last(answers).exc = "ReadTimeout"
    /\ pc = "returned"
    /\ resource_kind = "service"
    /\ Len(ItemsOf(response)) = 3

(* C3 (as claimed): whatever the Retry-After header of a 429 answer is, the *)
(* call sleeps and sends the request again; no exception reaches the        *)
(* caller.                                                                  *)
C3_RateLimitNeverRaises ==
    (answers # <<>> /\ IsRateLimit(Last(answers))) => pc \in {"sleep", "inflight"}

(* C4: when a page request is answered 429 once and then succeeds, the      *)
(* request sent again equals the rejected one (method, endpoint, skip,      *)
(* take), the 429 answer yields no page, and the finished fetch has yielded *)
(* the pages of an unthrottled fetch of the same data.                      *)
C4_RetrySameRequest ==
    /\ \A i \in 1..Len(answers) :
         (IsRateLimit(answers[i]) /\ i < Len(requests)) => requests[i + 1] = requests[i]
    /\ configured => Len(yielded) <= Len(SelectSeq(answers, IsNotRateLimit))
    /\ (pc = "done" /\ RateLimitCount = 1
          /\ \A i \in 1..Len(answers) : IsRateLimit(answers[i]) \/ answers[i] = OkOutcome)
         => yielded = UnthrottledPages(shape, M)

C4_Witness ==
    /\ pc = "done"
    /\ RateLimitCount = 1
    /\ Len(answers) >= 3
    /\ IsRateLimit(answers[2])
    /\ answers[1] = OkOutcome /\ answers[3] = OkOutcome
    /\ requests[3].skip = PAGE_SIZE
    /\ Len(yielded) >= 2

(* C6: no yielded page is empty, and a response with an empty item list     *)
(* ends the fetch without a yield (zero pages when it is the first).        *)
C6_NeverEmptyPage ==
    /\ [](\A i \in 1..Len(yielded) : Len(yielded[i]) > 0)
    /\ [][(pc = "returned" /\ Len(ItemsOf(response)) = 0)
            => (pc' = "done" /\ yielded' = yielded)]_vars

C6_Witness ==
    /\ pc = "done"
    /\ Len(ItemsOf(response)) = 0
    /\ Len(yielded) = 1
    /\ Len(requests) = 2

---------------------------------------------------------------------------
(* Properties of the tasks (specification SpecConc)                         *)

(* C5: under any interleaving of the tasks that share the client, at most   *)
(* MAX_CONCURRENT_REQUESTS requests are in flight.                          *)
C5_BoundedInFlight == Cardinality(InFlight) <= MAX_CONCURRENT_REQUESTS

C5_Witness ==
    /\ Cardinality(InFlight) = MAX_CONCURRENT_REQUESTS
    /\ \E t \in Tasks : tpc[t] = "idle"
    /\ sem = 0

---------------------------------------------------------------------------
(* Properties of the validators (specification SpecValidate)                *)

RanValidator == "validate_port_objects" \in vpc

RanExtractor == "validate_against_blueprints" \in vpc /\ ~validation_results.raised

KindIndexes == 1..Len(port_objects)

Without(input, k) == SubSeq(input, 1, k - 1) \o SubSeq(input, k + 1, Len(input))

Names(kind, msgs) == { j \in 1..Len(msgs) : msgs[j].obj.kind = kind }

ObjectMsgs(msgs) == { j \in 1..Len(msgs) : msgs[j].obj.i >= 0 }

RECURSIVE AllIds(_)
AllIds(input) ==
    IF input = <<>> THEN <<>>
    ELSE [i \in 1..Len(Head(input).objects) |-> ObjId(Head(input).kind, i - 1)]
         \o AllIds(Tail(input))

(* C7 (as claimed): a kind whose object list is empty gets no error and no  *)
(* warning, and does not turn the validity flag false, in either validator. *)
C7_ValidatorEmptyKind ==
    RanValidator =>
        \A k \in KindIndexes :
            port_objects[k].objects = <<>> =>
                /\ Names(port_objects[k].kind, results.validation_errors) = {}
                /\ Names(port_objects[k].kind, results.validation_warnings) = {}
                /\ results.summary[k].errors = <<>>
                /\ results.summary[k].warnings = <<>>
                /\ results.valid = validate_port_objects(Without(port_objects, k)).valid

C7_ExtractorEmptyKind ==
    RanExtractor =>
        \A k \in KindIndexes :
            port_objects[k].objects = <<>> =>
                /\ Names(port_objects[k].kind, validation_results.errors) = {}
                /\ Names(port_objects[k].kind, validation_results.warnings) = {}
                /\ validation_results.valid
                     = validate_against_blueprints(Without(port_objects, k)).valid

(* C7: the statement for PortObjectValidator.validate_port_objects and for  *)
(* PortObjectExtractor.validate_against_blueprints together.                *)
C7_EmptyKindClean == C7_ValidatorEmptyKind /\ C7_ExtractorEmptyKind

(* C8 (as claimed): the validity flag is true exactly when no object        *)
(* produced an error, and every object of every kind is validated whatever  *)
(* earlier objects or kinds produced, in either validator. Stated for the   *)
(* inputs in which every kind holds an object (the empty kind is C7).       *)
NoEmptyKind == \A k \in KindIndexes : port_objects[k].objects # <<>>

C8_ValidatorExhaustive ==
    (RanValidator /\ NoEmptyKind) =>
        /\ results.checked = AllIds(port_objects)
        /\ results.valid = (ObjectMsgs(results.validation_errors) = {})
        /\ results.valid =
             \A k \in KindIndexes : \A i \in 1..Len(port_objects[k].objects) :
                _validate_single_object(port_objects[k].objects[i],
                                        ObjId(port_objects[k].kind, i - 1)).errors = <<>>

C8_ExtractorExhaustive ==
    (RanExtractor /\ NoEmptyKind) =>
        /\ validation_results.checked = AllIds(port_objects)
        /\ validation_results.valid = (ObjectMsgs(validation_results.errors) = {})

(* C8: the statement for both validators together. *)
C8_ValidIffNoObjectError == C8_ValidatorExhaustive /\ C8_ExtractorExhaustive

(* C9 (as claimed): every object counted valid (validated, and no error     *)
(* reported for it) has a non-empty string identifier and a non-empty       *)
(* string blueprint that is in the registry, in either validator.           *)
WellFormed(obj) ==
    /\ IsStr(obj.identifier) /\ obj.identifier.s # ""
    /\ IsStr(obj.blueprint) /\ obj.blueprint.s # ""
    /\ obj.blueprint.s \in BlueprintIds

CountedValid(checked, errors, id) ==
    /\ \E j \in 1..Len(checked) : checked[j] = id
    /\ \A j \in 1..Len(errors) : errors[j].obj # id

C9_ValidatorValidObjects ==
    RanValidator =>
        \A k \in KindIndexes : \A i \in 1..Len(port_objects[k].objects) :
            CountedValid(results.checked, results.validation_errors,
                         ObjId(port_objects[k].kind, i - 1))
                => WellFormed(port_objects[k].objects[i])

C9_ExtractorValidObjects ==
    RanExtractor =>
        \A k \in KindIndexes : \A i \in 1..Len(port_objects[k].objects) :
            CountedValid(validation_results.checked, validation_results.errors,
                         ObjId(port_objects[k].kind, i - 1))
                => WellFormed(port_objects[k].objects[i])

(* C9: the statement for both validators together. *)
C9_ValidObjectsWellFormed == C9_ValidatorValidObjects /\ C9_ExtractorValidObjects

(* C10 (as claimed): a property whose value is null yields no error,        *)
(* whatever type the blueprint declares for it, and by itself never makes   *)
(* the result invalid, in either validator; PortObjectValidator adds a      *)
(* warning for it. Stated for the objects that were validated.              *)
IsNullEntry(e) == e.value.t = "none"

IsNotNullEntry(e) == ~IsNullEntry(e)

WithoutNulls(obj) ==
    IF obj.properties.t = "dict"
      THEN [obj EXCEPT !.properties = Dict(SelectSeq(obj.properties.d, IsNotNullEntry))]
      ELSE obj

InputWithoutNulls(input) ==
    [k \in 1..Len(input) |->
        [input[k] EXCEPT !.objects =
            [i \in 1..Len(input[k].objects) |-> WithoutNulls(input[k].objects[i])]]]

(* <<k, i, name>>: object i of kind k holds property `name` with value null *)
NullProperties ==
    { n \in KindIndexes \X (1..MaxObjs + 1) \X PropertyNames :
        /\ n[2] <= Len(port_objects[n[1]].objects)
        /\ port_objects[n[1]].objects[n[2]].properties.t = "dict"
        /\ \E j \in 1..Len(port_objects[n[1]].objects[n[2]].properties.d) :
              /\ port_objects[n[1]].objects[n[2]].properties.d[j].name = n[3]
              /\ IsNullEntry(port_objects[n[1]].objects[n[2]].properties.d[j]) }

Validated(checked, n) ==
    \E j \in 1..Len(checked) : checked[j] = ObjId(port_objects[n[1]].kind, n[2] - 1)

Reported(msgs, n) ==
    \E j \in 1..Len(msgs) :
        msgs[j].obj = ObjId(port_objects[n[1]].kind, n[2] - 1) /\ msgs[j].arg = n[3]

C10_ValidatorNullWarns ==
    RanValidator =>
        /\ \A n \in NullProperties :
             Validated(results.checked, n) =>
                /\ ~Reported(results.validation_errors, n)
                /\ Reported(results.validation_warnings, n)
        /\ results.validation_errors
             = validate_port_objects(InputWithoutNulls(port_objects)).validation_errors
        /\ results.valid = validate_port_objects(InputWithoutNulls(port_objects)).valid

C10_ExtractorNullNoError ==
    RanExtractor =>
        /\ \A n \in NullProperties :
             Validated(validation_results.checked, n) =>
                ~Reported(validation_results.errors, n)
        /\ validation_results.valid
             = validate_against_blueprints(InputWithoutNulls(port_objects)).valid

(* C10: the statement for both validators together. *)
C10_NullPropertyWarns == C10_ValidatorNullWarns /\ C10_ExtractorNullNoError

---------------------------------------------------------------------------
(* Rules of section 4.3, object by object (specification SpecValidate)      *)

(* <<k, i>>: object i of kind k of the input *)
ObjectsIn ==
    { n \in KindIndexes \X (1..MaxObjs + 1) : n[2] <= Len(port_objects[n[1]].objects) }

ObjAt(n) == port_objects[n[1]].objects[n[2]]

IdAt(n) == ObjId(port_objects[n[1]].kind, n[2] - 1)

Count(msgs, id, text, arg) ==
    Cardinality({ j \in 1..Len(msgs) : msgs[j] = Msg(id, text, arg) })

MissingOrEmptyField(obj, f) == ~Has(FieldOf(obj, f)) \/ FieldOf(obj, f) = PyStr("")

RequiredFieldNames == {"identifier", "title", "blueprint"}

(* C11 (as claimed): an object whose identifier, title or blueprint is      *)
(* missing or empty gets one error per such field and the overall result   *)
(* is invalid, in either validator. Stated for the objects that were        *)
(* validated.                                                               *)
C11_ValidatorRequired ==
    RanValidator =>
        \A n \in ObjectsIn : \A f \in RequiredFieldNames :
            (Validated(results.checked, n) /\ MissingOrEmptyField(ObjAt(n), f)) =>
                /\ Count(results.validation_errors, IdAt(n),
                         "Missing or empty required field", f) = 1
                /\ ~results.valid

C11_ExtractorRequired ==
    RanExtractor =>
        \A n \in ObjectsIn : \A f \in RequiredFieldNames :
            (Validated(validation_results.checked, n) /\ MissingOrEmptyField(ObjAt(n), f)) =>
                /\ Count(validation_results.errors, IdAt(n),
                         "Missing required field", f) = 1
                /\ ~validation_results.valid

(* C11: the statement for both validators together. *)
C11_RequiredFieldErrors == C11_ValidatorRequired /\ C11_ExtractorRequired

(* C12 (as claimed): each object whose blueprint value is not in the schema *)
(* registry gets an error (a kind-level "blueprint not found" error counts  *)
(* for the objects of the kind), and no property-type or relation-name      *)
(* message is reported for that object, in either validator.                *)
Unregistered(obj) ==
    Has(obj.blueprint) /\ ~(IsStr(obj.blueprint) /\ obj.blueprint.s \in BlueprintIds)

SchemaTexts ==
    {"Property should be string", "Property should be number",
     "Property should be boolean", "Property should be array", "Unknown relation"}

HasError(msgs, n) ==
    \E j \in 1..Len(msgs) :
        \/ msgs[j].obj = IdAt(n)
        \/ msgs[j].obj = KindId(port_objects[n[1]].kind)

HasSchemaMsg(msgs, n) ==
    \E j \in 1..Len(msgs) : msgs[j].obj = IdAt(n) /\ msgs[j].text \in SchemaTexts

C12_ValidatorUnknownBlueprint ==
    RanValidator =>
        \A n \in ObjectsIn :
            Unregistered(ObjAt(n)) =>
                /\ HasError(results.validation_errors, n)
                /\ ~HasSchemaMsg(results.validation_errors, n)
                /\ ~HasSchemaMsg(results.validation_warnings, n)

C12_ExtractorUnknownBlueprint ==
    RanExtractor =>
        \A n \in ObjectsIn :
            Unregistered(ObjAt(n)) =>
                /\ HasError(validation_results.errors, n)
                /\ ~HasSchemaMsg(validation_results.errors, n)

(* C12: the statement for both validators together. *)
C12_UnknownBlueprintError == C12_ValidatorUnknownBlueprint /\ C12_ExtractorUnknownBlueprint

(* The registry entry an object names, and the objects that name one *)
Registered(obj) == IsStr(obj.blueprint) /\ obj.blueprint.s \in BlueprintIds

SchemaOf(obj) ==
    Blueprints[CHOOSE i \in 1..Len(Blueprints) : Blueprints[i].identifier = obj.blueprint.s]

(* <<k, i, j>>: entry j of the relations of object i of kind k, for the     *)
(* objects that name a registered blueprint and hold a relations mapping    *)
RelationEntries ==
    { r \in ObjectsIn \X (1..2) :
        /\ Registered(ObjAt(r[1]))
        /\ ObjAt(r[1]).relations.t = "dict"
        /\ r[2] <= Len(ObjAt(r[1]).relations.d) }

RelationAt(r) == ObjAt(r[1]).relations.d[r[2]]

ReportedFor(msgs, n, name) ==
    \E j \in 1..Len(msgs) : msgs[j].obj = IdAt(n) /\ msgs[j].arg = name

(* the object was validated against the blueprint it names *)
CheckedAgainstOwn(n) ==
    /\ Validated(validation_results.checked, n)
    /\ FirstBlueprint(port_objects[n[1]].objects) = ObjAt(n).blueprint

(* C13 (as claimed): in the relations of an object, a relation whose value  *)
(* is not a string yields an error, and a relation whose name is not in the *)
(* blueprint's relation set yields an error, in either validator.           *)
C13_ValidatorRelations ==
    RanValidator =>
        \A r \in RelationEntries :
            /\ ~IsStr(RelationAt(r).value) =>
                  ReportedFor(results.validation_errors, r[1], RelationAt(r).name)
            /\ RelationAt(r).name \notin SchemaOf(ObjAt(r[1])).relations =>
                  ReportedFor(results.validation_errors, r[1], RelationAt(r).name)

C13_ExtractorRelations ==
    RanExtractor =>
        \A r \in RelationEntries :
            CheckedAgainstOwn(r[1]) =>
                /\ ~IsStr(RelationAt(r).value) =>
                      ReportedFor(validation_results.errors, r[1], RelationAt(r).name)
                /\ RelationAt(r).name \notin SchemaOf(ObjAt(r[1])).relations =>
                      ReportedFor(validation_results.errors, r[1], RelationAt(r).name)

(* C13: the statement for both validators together. *)
C13_RelationsChecked == C13_ValidatorRelations /\ C13_ExtractorRelations

(* <<k, i, j>>: entry j of the properties, as for the relations *)
PropertyEntries ==
    { r \in ObjectsIn \X (1..2) :
        /\ Registered(ObjAt(r[1]))
        /\ ObjAt(r[1]).properties.t = "dict"
        /\ r[2] <= Len(ObjAt(r[1]).properties.d) }

PropertyAt(r) == ObjAt(r[1]).properties.d[r[2]]

CheckedTypes == {"string", "number", "boolean", "array"}

Declared(r) == PropertyAt(r).name \in DOMAIN SchemaOf(ObjAt(r[1])).properties

DeclaredType(r) == SchemaOf(ObjAt(r[1])).properties[PropertyAt(r).name]

(* the value is of another type than declared; a Python bool passes for a   *)
(* number, and null is the case of C10                                      *)
OtherType(decl, v) ==
    /\ v.t # "none"
    /\ CASE decl = "string" -> v.t # "str"
         [] decl = "number" -> v.t \notin {"int", "bool"}
         [] decl = "boolean" -> v.t # "bool"
         [] decl = "array" -> v.t # "list"

(* C14 (as claimed): a property the blueprint declares string, number,      *)
(* boolean or array whose value is of another type yields an error; a       *)
(* property of another declared type, or not declared, yields none, in      *)
(* either validator.                                                        *)
C14_ValidatorTypes ==
    RanValidator =>
        \A r \in PropertyEntries :
            IF Declared(r) /\ DeclaredType(r) \in CheckedTypes
              THEN OtherType(DeclaredType(r), PropertyAt(r).value) =>
                     ReportedFor(results.validation_errors, r[1], PropertyAt(r).name)
              ELSE ~ReportedFor(results.validation_errors, r[1], PropertyAt(r).name)

C14_ExtractorTypes ==
    RanExtractor =>
        \A r \in PropertyEntries :
            CheckedAgainstOwn(r[1]) =>
                IF Declared(r) /\ DeclaredType(r) \in CheckedTypes
                  THEN OtherType(DeclaredType(r), PropertyAt(r).value) =>
                         ReportedFor(validation_results.errors, r[1], PropertyAt(r).name)
                  ELSE ~ReportedFor(validation_results.errors, r[1], PropertyAt(r).name)

(* C14: the statement for both validators together. *)
C14_PropertyTypesChecked == C14_ValidatorTypes /\ C14_ExtractorTypes

---------------------------------------------------------------------------
(* Properties of the mapping (specification SpecMap)                        *)

WasMapped == mpc \in DirectMappers \cup ExpressionMappers

MappedObject == port_objects[1].objects[1]

HasEntry(member, name) ==
    member.t = "dict" /\ \E j \in 1..Len(member.d) : member.d[j].name = name

EntryValue(member, name) ==
    IF HasEntry(member, name)
      THEN member.d[CHOOSE j \in 1..Len(member.d) : member.d[j].name = name].value
      ELSE Absent

(* the relation expression of the given name yields null on the item *)
YieldsNull(name) ==
    \E j \in 1..Len(mappings.relations) :
        /\ mappings.relations[j].name = name
        /\ mappings.relations[j].value = Yields(PyNone)

(* C15 (as claimed): a service raw item with no project_id maps to an       *)
(* object whose relations hold no "project" entry at all, and validating    *)
(* the object (its id and name being populated) raises no "Missing or       *)
(* empty required field" error.                                             *)
C15_DirectNoProject ==
    (mpc = "_transform_service" /\ raw.item["project_id"] = Absent) =>
        /\ ~HasEntry(MappedObject.relations, "project")
        /\ (RanValidator /\ raw.item["id"] = Populated("id")
                         /\ raw.item["name"] = Populated("name")) =>
              \A j \in 1..Len(results.validation_errors) :
                  results.validation_errors[j].text # "Missing or empty required field"

C15_ExpressionNoProject ==
    (mpc \in ExpressionMappers /\ YieldsNull("project")) =>
        ~HasEntry(MappedObject.relations, "project")

(* C15: the statement for direct and for expression mapping together. *)
C15_ProjectRelationOmitted == C15_DirectNoProject /\ C15_ExpressionNoProject

(* what one evaluation contributes: its value, or nothing when the          *)
(* expression fails or yields null                                          *)
Contribution(ev, absent) == IF ~ev.fails /\ ev.value.t # "none" THEN ev.value ELSE absent

IndependentlyMapped(obj) ==
    /\ obj.identifier = Contribution(mappings.identifier, Absent)
    /\ obj.title = Contribution(mappings.title, Absent)
    /\ obj.blueprint = Contribution(mappings.blueprint, Absent)
    /\ obj.properties = Contribution(mappings.properties, NoMember)
    /\ \A j \in 1..Len(mappings.relations) :
          EntryValue(obj.relations, mappings.relations[j].name)
            = Contribution(mappings.relations[j].value, Absent)

(* C16 (as claimed): in expression mapping an expression that fails or      *)
(* yields no value leaves out that one field or that one relation only;     *)
(* every other field and relation is mapped, in either implementation.      *)
C16_SimpleIndependent ==
    mpc = "_transform_item" => IndependentlyMapped(MappedObject)

C16_ExtractorIndependent ==
    mpc = "transform_to_port_object" => IndependentlyMapped(MappedObject)

(* C16: the statement for both implementations together. *)
C16_ExpressionsIndependent == C16_SimpleIndependent /\ C16_ExtractorIndependent

(* The target each mapper fills from which source fields of the raw item   *)
(* (parent: the nested record that holds them, "" for none).                *)
Row(target, sources, parent) == [target |-> target, sources |-> sources, parent |-> parent]

Rows(kind) ==
    CASE kind = "carg-project" ->
           {Row("identifier", {"id"}, ""), Row("title", {"name"}, ""),
            Row("status", {"status"}, ""), Row("description", {"description"}, ""),
            Row("owner", {"owner.email", "owner.username"}, "owner"),
            Row("budget", {"budget"}, ""), Row("startDate", {"start_date"}, ""),
            Row("endDate", {"end_date"}, ""), Row("tags", {"tags"}, ""),
            Row("azureDevOpsProject", {"azure_devops.project_name"}, "azure_devops")}
      [] kind = "carg-service" ->
           {Row("identifier", {"id"}, ""), Row("title", {"name"}, ""),
            Row("status", {"status"}, ""), Row("healthStatus", {"health_status"}, ""),
            Row("version", {"version"}, ""),
            Row("repository", {"repository.url"}, "repository"),
            Row("language", {"language"}, ""),
            Row("cpu", {"metrics.cpu_usage"}, "metrics"),
            Row("memory", {"metrics.memory_usage_mb"}, "metrics"),
            Row("lastDeployment", {"last_deployment.timestamp"}, "last_deployment"),
            Row("azurePipeline", {"azure_devops.pipeline_name"}, "azure_devops"),
            Row("project", {"project_id"}, "")}
      [] kind = "carg-component" ->
           {Row("identifier", {"id"}, ""), Row("title", {"name"}, ""),
            Row("type", {"type"}, ""), Row("status", {"status"}, ""),
            Row("description", {"description"}, ""),
            Row("maintainer", {"maintainer.email", "maintainer.username"}, "maintainer"),
            Row("complexity", {"complexity"}, ""),
            Row("testCoverage", {"test_coverage"}, ""),
            Row("service", {"service_id"}, "")}
      [] kind = "carg-deployment" ->
           {Row("identifier", {"id"}, ""),
            Row("title", {"service_name", "environment", "version"}, ""),
            Row("status", {"status"}, ""), Row("environment", {"environment"}, ""),
            Row("version", {"version"}, ""),
            Row("deployedBy", {"deployed_by.email", "deployed_by.username"}, "deployed_by"),
            Row("deploymentTime", {"deployment_time"}, ""),
            Row("duration", {"duration_seconds"}, ""),
            Row("azurePipelineRun", {"azure_devops.run_id"}, "azure_devops"),
            Row("logs", {"logs"}, ""), Row("service", {"service_id"}, "")}

TargetOf(obj, target) ==
    CASE target = "identifier" -> obj.identifier
      [] target = "title" -> obj.title
      [] target \in {"project", "service"} -> EntryValue(obj.relations, target)
      [] OTHER -> EntryValue(obj.properties, target)

AllMissing(item, row) ==
    \/ row.parent # "" /\ item[row.parent] = Absent
    \/ \A f \in row.sources : item[f] = Absent

(* every field of the item is populated or missing: no null, no other type *)
OnlyMissing ==
    mpc # "mappings" /\ \A f \in DOMAIN raw.item : raw.item[f] \in {Absent, Populated(f)}

SomeMissing == \E f \in DOMAIN raw.item : raw.item[f] = Absent

(* C17 (as claimed): direct mapping never raises for a raw item in which    *)
(* any of the recognized source fields, nested records included, are        *)
(* missing, and a target all of whose source fields are missing is null or  *)
(* absent in the mapped object.                                             *)
C17_NeverRaises == OnlyMissing => mpc # "raised"

C17_MissingIsNull ==
    (mpc \in DirectMappers /\ OnlyMissing) =>
        \A row \in Rows(raw.kind) :
            AllMissing(raw.item, row) =>
                TargetOf(MappedObject, row.target) \in {PyNone, Absent}

(* C17: both halves of the statement. *)
C17_MissingMapsToNull == C17_NeverRaises /\ C17_MissingIsNull

(* C18 (as claimed): every object produced by the mapping has an identifier *)
(* of string type, whatever the raw item's id is.                           *)
C18_DirectIdentifier == mpc \in DirectMappers => IsStr(MappedObject.identifier)

C18_ExpressionIdentifier == mpc \in ExpressionMappers => IsStr(MappedObject.identifier)

(* C18: the statement for direct and for expression mapping together. *)
C18_IdentifierIsString == C18_DirectIdentifier /\ C18_ExpressionIdentifier

AllPopulated ==
    mpc # "mappings" /\ \A f \in DOMAIN raw.item : raw.item[f] \notin {Absent, PyNone}

(* C19: for every kind, the direct mapping of a raw item with all           *)
(* recognized fields populated, validated by PortObjectValidator, yields    *)
(* zero errors and a valid result.                                          *)
C19_RoundTrip ==
    (mpc \in DirectMappers /\ AllPopulated /\ RanValidator) =>
        /\ results.validation_errors = <<>>
        /\ results.valid
        /\ results.total_objects = 1
        /\ results.summary[1].valid_objects = 1

C19_Witness ==
    /\ mpc = "_transform_deployment" /\ AllPopulated /\ RanValidator
    /\ raw.item["service_id"] = PyInt(1)
    /\ MappedObject.identifier = PyStr("1")
    /\ MappedObject.title = PyStr("service_name - environment - version")
    /\ EntryValue(MappedObject.relations, "service") = PyStr("1")
    /\ results.checked = <<ObjId("carg-deployment", 0)>>

---------------------------------------------------------------------------
(* Properties of the webhook registration (specification SpecWebhook)       *)

(* C20 (as claimed): create_webhooks puts the creating POST on the wire     *)
(* only when the permission is granted and the remote holds no webhook of   *)
(* the same target URL, so whatever the number of calls the remote holds    *)
(* at most one webhook of each URL.                                         *)
C20_PostOnlyPermitted == posts # <<>> => (configured /\ can_create)

C20_PostOnlyWhenAbsent == \A j \in 1..Len(posts) : posts[j].held = 0

C20_AtMostOneWebhook == \A h \in Hosts : Held(WebhookUrl(h)) <= 1

C20_WebhookIdempotent ==
    C20_PostOnlyPermitted /\ C20_PostOnlyWhenAbsent /\ C20_AtMostOneWebhook

---------------------------------------------------------------------------
(* Properties of the command-line programs (specification SpecCli)          *)

HasExited == run.pc = "exited"

(* the run has validated its objects, and what the validation reported *)
HasValidated ==
    IF run.program = "validate_port_objects" THEN "validate_port_objects" \in vpc
    ELSE "validate_against_blueprints" \in vpc

ReportedErrors ==
    IF run.program = "validate_port_objects" THEN results.validation_errors
    ELSE validation_results.errors

(* C22 (as claimed): a run that has validated its objects exits with status *)
(* 0 when the validation reported no error and with status 1 when it        *)
(* reported one; a run whose configuration or blueprint file cannot be      *)
(* loaded exits with status 1.                                              *)
C22_ValidExitsZero ==
    (HasExited /\ HasValidated /\ ReportedErrors = <<>> /\ ~validation_results.raised)
        => run.status = 0

C22_InvalidExitsOne ==
    (HasExited /\ HasValidated /\ ReportedErrors # <<>>) => run.status = 1

C22_LoadFailureExitsOne ==
    (HasExited /\ ~run.files_ok) => run.status = 1

---------------------------------------------------------------------------
(* Further properties of the fetch (specification Spec)                     *)

FourKinds == {"project", "service", "component", "deployment"}

(* C24: a client without base URL or token puts no request on the wire and  *)
(* takes no permit; the call returns the fixture records of the endpoint's  *)
(* kind, and the fetch of each of the four kinds yields exactly one page,   *)
(* holding all fixture records of the kind, and ends.                       *)
C24_MockWithoutRequest ==
    ~configured =>
        /\ requests = <<>>
        /\ sem = MAX_CONCURRENT_REQUESTS
        /\ pc \in {"call", "returned", "done"}
        /\ pc \in {"returned", "done"} => ItemsOf(response) = FixtureOf(resource_kind)
        /\ (pc = "done" /\ resource_kind \in FourKinds)
              => yielded = <<FixtureOf(resource_kind)>>

C24_Witness ==
    /\ ~configured
    /\ pc = "done"
    /\ resource_kind = "deployment"
    /\ yielded = <<_get_mock_deployments>>
    /\ Len(yielded[1]) = 3
    /\ requests = <<>>

(* The stop condition as the statement gives it, for the response r of the  *)
(* request with offset skip.                                                *)
StopsAfter(r, skip) ==
    \/ (HasMoreOf(r) = FALSE /\ TotalOf(r) > 0 /\ skip + Len(ItemsOf(r)) >= TotalOf(r))
    \/ (~(HasMoreOf(r) = FALSE /\ TotalOf(r) > 0) /\ Len(ItemsOf(r)) < PAGE_SIZE)

(* C25: the step that handles a response with items yields them and then    *)
(* ends the fetch exactly when the stop condition holds; otherwise it       *)
(* advances skip by PAGE_SIZE and goes on to the next request, which        *)
(* carries the advanced skip.                                               *)
C25_StopCondition ==
    /\ [][(pc = "returned" /\ Len(ItemsOf(response)) > 0) =>
            /\ yielded' = Append(yielded, ItemsOf(response))
            /\ IF StopsAfter(response, params.skip)
                 THEN pc' = "done" /\ params' = params
                 ELSE pc' = "call" /\ params'.skip = params.skip + PAGE_SIZE]_vars
    /\ [][(pc = "call" /\ configured) =>
            (Len(requests') = Len(requests) + 1 /\ Last(requests').skip = params.skip)]_vars

C25_Witness ==
    /\ pc = "done"
    /\ configured /\ AllOk
    /\ shape.total /\ ~shape.hasMore
    /\ M = 2 * PAGE_SIZE
    /\ Len(requests) = 2
    /\ Len(yielded) = 2

(* C26: a bare list with items is yielded as one page and ends the fetch,   *)
(* whatever its length: a finished fault-free fetch from a remote that      *)
(* answers with bare lists sent one request and yielded one page.           *)
C26_BareListIsComplete ==
    /\ [][(pc = "returned" /\ response.islist /\ Len(response.data) > 0) =>
            (pc' = "done" /\ yielded' = Append(yielded, response.data)
               /\ requests' = requests)]_vars
    /\ []((pc = "done" /\ configured /\ shape.list /\ AllOk /\ M > 0) =>
            /\ Len(requests) = 1
            /\ yielded = <<Slice(M, 0, PAGE_SIZE)>>)

C26_Witness ==
    /\ pc = "done"
    /\ configured /\ shape.list /\ AllOk
    /\ M = 2 * PAGE_SIZE + 1
    /\ Len(requests) = 1
    /\ Len(yielded) = 1
    /\ Len(yielded[1]) = PAGE_SIZE

(* The pages of the remote's data yielded before position n *)
RemotePagesBefore(n) ==
    \A i \in 1..(n - 1) : yielded[i] = Slice(M, (i - 1) * PAGE_SIZE, PAGE_SIZE)

(* C29: when the request for a page after the first ends in a non-429       *)
(* error, no further request is sent, the call returns, and the finished    *)
(* fetch has yielded the remote pages received before, followed by one page *)
(* of the kind's fixture records.                                           *)
C29_FallbackEndsFetch ==
    \A j \in 1..Len(answers) :
        (configured /\ resource_kind \in FourKinds
           /\ answers[j] \in ErrorOutcomes /\ requests[j].skip > 0)
        => /\ Len(requests) = j
           /\ pc \in {"returned", "done"}
           /\ ItemsOf(response) = FixtureOf(resource_kind)
           /\ pc = "done" =>
                /\ Len(yielded) >= 2
                /\ Last(yielded) = FixtureOf(resource_kind)
                /\ RemotePagesBefore(Len(yielded))

C29_Witness ==
    /\ pc = "done"
    /\ configured
    /\ resource_kind = "service"
    /\ M = 2 * PAGE_SIZE + 1
    /\ Len(answers) = 3
    /\ answers[1] = OkOutcome /\ answers[2] = OkOutcome
    /\ answers[3] = Outcome("HTTPStatusError", 500, NoHeader)
    /\ Len(yielded) = 3
    /\ yielded[3] = _get_mock_services

(* C30: every request carries take = PAGE_SIZE and a skip that is a         *)
(* multiple of PAGE_SIZE; the first has skip 0, a request that follows a    *)
(* 429 answer repeats the skip, and every other request has a skip          *)
(* PAGE_SIZE above the one before.                                          *)
C30_SkipSequence ==
    /\ \A i \in 1..Len(requests) :
         /\ requests[i].take = PAGE_SIZE
         /\ requests[i].skip % PAGE_SIZE = 0
    /\ requests # <<>> => requests[1].skip = 0
    /\ \A i \in 1..(Len(requests) - 1) :
         requests[i + 1].skip =
            IF IsRateLimit(answers[i]) THEN requests[i].skip
            ELSE requests[i].skip + PAGE_SIZE

C30_Witness ==
    /\ Len(requests) = 4
    /\ IsRateLimit(answers[2])
    /\ requests[1].skip = 0
    /\ requests[2].skip = PAGE_SIZE
    /\ requests[3].skip = PAGE_SIZE
    /\ requests[4].skip = 2 * PAGE_SIZE
    /\ Len(yielded[1]) = PAGE_SIZE

(* C27 (as claimed): a request answered 429 is never given up: the call     *)
(* sleeps and sends the same request again, however often the remote        *)
(* answers 429, without returning, falling back or raising; and every       *)
(* request put on the wire leads to the return of the call once the remote  *)
(* answers it with something else than 429.                                 *)
C27_RetriesUntilAnswered ==
    /\ [][(pc = "inflight" /\ Len(answers') > Len(answers) /\ IsRateLimit(Last(answers')))
            => pc' = "sleep"]_vars
    /\ [][pc = "sleep" => (pc' = "inflight" /\ Last(requests') = Last(requests))]_vars
    /\ (pc = "inflight") ~> (pc \in {"returned", "done"})

---------------------------------------------------------------------------
(* Further properties of the tasks (specification SpecConc)                 *)

Sleeping == { t \in Tasks : tpc[t] = "sleep" }

(* C28: the permits taken are exactly those of the requests in flight: a    *)
(* task that sleeps after a 429 or has returned holds none, and with no     *)
(* request in flight all MAX_CONCURRENT_REQUESTS permits are free.          *)
C28_PermitOnlyInFlight ==
    /\ sem = MAX_CONCURRENT_REQUESTS - Cardinality(InFlight)
    /\ InFlight = {} => sem = MAX_CONCURRENT_REQUESTS

C28_Witness ==
    /\ Cardinality(Sleeping) = 1
    /\ Cardinality(InFlight) = MAX_CONCURRENT_REQUESTS
    /\ sem = 0

---------------------------------------------------------------------------
(* Properties of fetches that share one client (specification SpecPair)     *)

Started == { f \in Fetches : fetches[f].pc # "new" }

Offset(f) == dicts[fetches[f].params].skip

AllRequests ==
    UNION { { fetches[f].requests[i] : i \in 1..Len(fetches[f].requests) } : f \in Fetches }

(* C21: the body of `if self._client is None` runs at most once; the handle *)
(* it sets is never replaced, and the requests of all fetches, in whatever  *)
(* order their steps interleave, are sent on that one handle.               *)
C21_HandleConstructedOnce ==
    /\ [](setups <= 1)
    /\ [](\A r \in AllRequests : r.handle = _client /\ r.handle # NoHandle)
    /\ [][_client # NoHandle => _client' = _client]_vars

C21_Witness ==
    /\ setups = 1
    /\ _client = Handle("httpx.AsyncClient", 1)
    /\ \A f \in Fetches : fetches[f].pc = "inflight" /\ Len(fetches[f].requests) = 2

(* C23: every invocation sends its first request with skip = 0 and its      *)
(* later ones with the skip of the one before or PAGE_SIZE more; a step of  *)
(* one invocation leaves the offset of every other invocation as it is; and *)
(* a finished invocation whose requests all succeeded (after any 429        *)
(* retries) has yielded the pages of a fetch that runs alone.               *)
C23_OffsetIsLocal ==
    /\ [](\A f \in Fetches :
            LET reqs == fetches[f].requests
            IN  /\ reqs # <<>> => reqs[1].skip = 0
                /\ \A i \in 1..(Len(reqs) - 1) :
                     reqs[i + 1].skip \in {reqs[i].skip, reqs[i].skip + PAGE_SIZE})
    /\ [][\A f \in Started :
            (fetches'[f] = fetches[f]) => (dicts'[fetches[f].params].skip = Offset(f))]_vars
    /\ [](\A f \in Fetches :
            (fetches[f].pc = "done" /\ configured /\ ~fetches[f].fallback)
                => fetches[f].yielded = UnthrottledPages(shape, M))

C23_Witness ==
    /\ NumFetches >= 2
    /\ fetches[1].pc = "inflight" /\ fetches[2].pc = "inflight"
    /\ fetches[1].resource_kind = fetches[2].resource_kind
    /\ Last(fetches[1].requests).skip = PAGE_SIZE
    /\ Last(fetches[2].requests).skip = 0
    /\ Offset(1) = PAGE_SIZE /\ Offset(2) = 0

===========================================================================
